---- MODULE Spec2Model ----
(***************************************************************************)
(* A state-machine model of dask_awkward's lazy collection core            *)
(* (src/src/dask_awkward/core.py, utils.py, io.py).                        *)
(*                                                                         *)
(* The state is the heap of Array objects the caller holds, and the call   *)
(* that has just returned or raised with the Arrays it built.  Every Array *)
(* carries its divisions, the graph layer it added, and its metadata; the  *)
(* model also records the real number of rows each of its tasks yields     *)
(* when executed and the real structure of these values, which the program *)
(* does not know until it asks the scheduler.                              *)
(*                                                                         *)
(* Partition indices and keys are 0-based as in the source; TLA+ sequences *)
(* are 1-based, hence the +1 where a sequence is indexed.                  *)
(***************************************************************************)
EXTENDS Integers, Sequences, FiniteSets, TLC

VARIABLES arrays, last

vars == <<arrays, last>>

(* ----------------------------- bounds --------------------------------- *)

\* Arrays the caller holds at a time.
MaxArrays == 2
\* Source Arrays; they are built before anything is derived from them.
MaxSources == 2
\* Rows of a from_awkward source.
MaxRows == 2
\* Partitions requested of from_awkward / given to new_array_object.
MaxParts == 2
\* Rows of one partition of a source whose divisions are unknown, and
\* length of one selected row.
MaxPartRows == 1
\* Partitions of the Arrays a reduction is applied to on its own.
MaxReduceParts == 4
\* Partitions of the divisions sequences normalize is applied to.
MaxDivParts == 3
\* Largest partition size of these divisions sequences.
MaxChunk == 3

(* ------------------------- values and helpers -------------------------- *)

\* An unknown divisions entry (Python's None); known entries are >= 0.
None == -1

Max(a, b) == IF a >= b THEN a ELSE b

Last(s) == s[Len(s)]

RECURSIVE SumSeq(_)
SumSeq(s) == IF s = << >> THEN 0 ELSE s[1] + SumSeq(Tail(s))

\* numpy.cumsum
CumSum(s) == [k \in 1..Len(s) |-> SumSeq(SubSeq(s, 1, k))]

\* (None,) * n
Nones(n) == [k \in 1..n |-> None]

(* ----------------------- utils.py: normalize --------------------------- *)

\* numpy.digitize(x, bins, right=True): the number of bins that are < x.
\* Not what normalize calls; the properties of normalize tell the two apart.
DigitizeRight(x, bins) == Cardinality({j \in 1..Len(bins) : bins[j] < x})

\* numpy.digitize(x, bins) for non-decreasing bins, right=False: the number
\* of bins that are <= x.
Digitize(x, bins) == Cardinality({j \in 1..Len(bins) : bins[j] <= x})

\* Python's divisions[k] for k >= -len(divisions).
PyIndex(d, k) == IF k < 0 THEN d[Len(d) + k + 1] ELSE d[k + 1]

normalize_single_outer_inner_index(divisions, index) ==
    LET idx == IF index < 0 THEN Last(divisions) + index ELSE index
    IN  IF Len(divisions) = 2
        THEN <<0, idx>>
        ELSE LET partition_index == Digitize(idx, divisions) - 1
             IN  <<partition_index, idx - PyIndex(divisions, partition_index)>>

(* --------------------------- core.py: Array ---------------------------- *)

\* What the partitions of a collection really are when executed.  "nested":
\* rows are lists; "bool": rows are lists of booleans (a mask); "record":
\* rows are records; "leaf": rows are numbers; "nonarray": a partition is
\* not an awkward array (e.g. the int that len returns).
ArrayForms == {"nested", "bool", "record", "leaf"}

\* Executing a partition may also give something that is not an awkward
\* array ("nonarray"), raise a TypeError ("typeerror": an awkward function
\* applied to a non-array) or raise another error ("error": a layer that
\* cannot be materialised, a key the graph does not hold).
Raising == {"typeerror", "error"}

\* A task argument <<id, i>> is the key (name of Array id, i); <<0, v>> is
\* the plain value v.
Key(id, i) == <<id, i>>
Plain(v) == <<0, v>>

\* A task: the function, its positional arguments and its keyword argument
\* ("none" when it has none).
TaskKw(fn, args, kw) == [fn |-> fn, args |-> args, kw |-> kw]

Task(fn, args) == TaskKw(fn, args, "none")

\* Array.__init__: divisions, the layer the collection added to the graph
\* (task k+1 computes key (name, k)) and the metadata ("none" is None).
\* rows and form are the ground truth of the data behind the layer.
Array(div, layer, rows, form, meta) ==
    [div |-> div, layer |-> layer, rows |-> rows, form |-> form, meta |-> meta]

npartitions(a) == Len(a.div) - 1

known_divisions(a) == Len(a.div) > 0 /\ \A k \in 1..Len(a.div) : a.div[k] # None

\* Array.__dask_keys__ of the Array at position id of the heap h.
dask_keys(h, id) == [k \in 1..npartitions(h[id]) |-> Key(id, k - 1)]

\* Every key of the Array, as partition numbers: not what _first_partition
\* hands to the scheduler.
all_partition_keys(a) == [k \in 1..npartitions(a) |-> k - 1]

\* array.__dask_keys__()[0], the one key _first_partition hands to the
\* scheduler, as a partition number.
first_partition_keys(a) == <<0>>

\* _get_typetracer / _first_partition on an Array without metadata: one
\* scheduler call for the first key.  Result: [meta, sched, err, req]; req
\* holds the partitions asked of the scheduler.
get_typetracer(a) ==
    IF a.meta # "none"
    THEN [meta |-> a.meta, sched |-> 0, err |-> "none", req |-> << >>]
    ELSE IF npartitions(a) <= 0
    THEN [meta |-> "none", sched |-> 0, err |-> "IndexError", req |-> << >>]
    ELSE IF a.form = "error"
    THEN [meta |-> "none", sched |-> 1, err |-> "ExecutionError",
          req |-> first_partition_keys(a)]
    ELSE IF a.form \in {"nonarray", "typeerror"}
    THEN [meta |-> "none", sched |-> 1, err |-> "TypeError",
          req |-> first_partition_keys(a)]
    ELSE [meta |-> a.form, sched |-> 1, err |-> "none",
          req |-> first_partition_keys(a)]

\* new_array_object with divisions given.  Result: [arr, sched, err]; err
\* is the exception that leaves the function ("none": the Array is returned).
new_array_object(div, layer, rows, form, meta) ==
    LET array == Array(div, layer, rows, form, meta)
        tt == IF meta = "none" THEN get_typetracer(array)
              ELSE [meta |-> meta, sched |-> 0, err |-> "none", req |-> << >>]
        caught == tt.err \in {"AttributeError", "AssertionError", "TypeError"}
    IN  [arr |-> [array EXCEPT !.meta = IF tt.err = "none" THEN tt.meta ELSE "none"],
         sched |-> tt.sched,
         err |-> IF caught THEN "none" ELSE tt.err,
         req |-> tt.req]

\* math.ceil(nrows / n) for positive integers.
Ceil(nrows, n) == (nrows + n - 1) \div n

\* list(range(0, nrows, chunksize)) + [nrows]
Locs(nrows, chunksize) ==
    LET n == Ceil(nrows, chunksize)
    IN  [k \in 1..(n + 1) |-> IF k <= n THEN (k - 1) * chunksize ELSE nrows]

\* from_awkward(source, npartitions) for a source of nrows >= 1 rows.
from_awkward(nrows, nparts, form) ==
    LET chunksize == Ceil(nrows, nparts)
        locs == Locs(nrows, chunksize)
        n == Len(locs) - 1
    IN  new_array_object(locs,
                         [k \in 1..n |-> Task("data", << >>)],
                         [k \in 1..n |-> locs[k + 1] - locs[k]],
                         form, form)

\* A source whose divisions are unknown, as from_json builds it:
\* new_array_object(hlg, name, meta=meta, npartitions=n); rows are the rows
\* the n partitions really hold.
new_array_object_npartitions(rows, form) ==
    new_array_object(Nones(Len(rows) + 1),
                     [k \in 1..Len(rows) |-> Task("data", << >>)],
                     rows, form, form)

\* The selectors of Array.partitions[...] on n partitions, after dask's
\* normalize_index: an integer, a slice lo:hi, or a list of integers; idx is
\* the sequence of partitions selected.
Selector(kind, idx) == [kind |-> kind, idx |-> idx]

Selectors(n) ==
    {Selector("int", <<i>>) : i \in 0..(n - 1)}
    \cup {Selector("slice", [k \in 1..(hi - lo) |-> lo + k - 1]) :
             lo \in 0..n, hi \in 0..n}
    \cup {Selector("list", <<i>>) : i \in 0..(n - 1)}
    \cup {Selector("list", <<i, j>>) : i \in 0..(n - 1), j \in 0..(n - 1)}

\* Divisions that start at 0 and are unknown after it, whatever is selected:
\* not what Array._partitions assigns.
partitions_divisions_from_zero(a, sel) ==
    [k \in 1..(Len(sel.idx) + 1) |-> IF k = 1 THEN 0 ELSE None]

\* Divisions derived by subtraction whenever one partition is selected, by
\* an integer, a slice or a list: not what Array._partitions assigns.
partitions_divisions_one_selected(a, sel) ==
    IF Len(sel.idx) = 1 /\ known_divisions(a)
    THEN <<0, a.div[sel.idx[1] + 2] - a.div[sel.idx[1] + 1]>>
    ELSE Nones(Len(sel.idx) + 1)

\* The divisions Array._partitions gives its result.
partitions_divisions(a, sel) ==
    IF Len(sel.idx) = 1 /\ sel.kind = "int" /\ known_divisions(a)
    THEN <<0, a.div[sel.idx[1] + 2] - a.div[sel.idx[1] + 1]>>
    ELSE Nones(Len(sel.idx) + 1)

\* A layer whose key k is the source's key k, whatever is selected: not what
\* Array._partitions builds.
partitions_layer_by_position(id, sel) ==
    [k \in 1..Len(sel.idx) |-> Task("alias", <<Key(id, k - 1)>>)]

\* The layer Array._partitions builds: key k is the k-th selected key.
partitions_layer(id, sel) ==
    [k \in 1..Len(sel.idx) |-> Task("alias", <<Key(id, sel.idx[k])>>)]

\* What executing the key <<id, i>> really gives: the form of its value
\* ("error" when the layer of the Array holds no such key) and its rows.
KeyForm(h, key) ==
    IF key[2] + 1 > Len(h[key[1]].layer) THEN "error" ELSE h[key[1]].form

KeyRows(h, key) ==
    IF key[2] + 1 > Len(h[key[1]].rows) THEN 0 ELSE h[key[1]].rows[key[2] + 1]

\* Array._partitions(index) on the Array at position id of the heap h: the
\* result is built without metadata, so new_array_object derives it.
Array_partitions(h, id, sel) ==
    LET forms == {KeyForm(h, Key(id, sel.idx[k])) : k \in 1..Len(sel.idx)}
    IN  new_array_object(partitions_divisions(h[id], sel),
                         partitions_layer(id, sel),
                         [k \in 1..Len(sel.idx) |-> KeyRows(h, Key(id, sel.idx[k]))],
                         IF "error" \in forms THEN "error" ELSE h[id].form,
                         "none")

\* The value of a call that raised.
NoArray == Array(<< >>, << >>, << >>, "none", "none")

Raise(err, sched) == [arr |-> NoArray, sched |-> sched, err |-> err, req |-> << >>]

(* ------------------- core.py: partitionwise operations ----------------- *)

\* A positional argument of map_partitions: the Array at heap position id,
\* or the plain value v.
ArrayArg(id) == <<id, 0>>

IsArrayArg(x) == x[1] > 0

ArrayArgIds(args) == {args[k][1] : k \in {j \in 1..Len(args) : IsArrayArg(args[j])}}

\* The position of the first Array among the arguments.
FirstArrayPos(args) ==
    CHOOSE k \in 1..Len(args) :
        IsArrayArg(args[k]) /\ \A j \in 1..(k - 1) : ~IsArrayArg(args[j])

\* numblocks as partitionwise_layer hands it to dask's blockwise, and the
\* block counts blockwise keeps for the index "i": a count of 1 broadcasts
\* against any other count.
NumBlocks(h, args) == {npartitions(h[id]) : id \in ArrayArgIds(args)}

BlockDims(h, args) ==
    IF Cardinality(NumBlocks(h, args)) > 1
    THEN NumBlocks(h, args) \ {1} ELSE NumBlocks(h, args)

\* Whether the blockwise layer can be materialised ("Shapes do not align").
Aligns(h, args) == Cardinality(BlockDims(h, args)) = 1

\* partitionwise_layer(func, name, *args, **kwargs): one task per block of
\* the index "i"; an empty layer stands for one that cannot be materialised.
partitionwise_layer(h, fn, args, kw) ==
    IF ~Aligns(h, args) THEN << >>
    ELSE LET n == CHOOSE x \in BlockDims(h, args) : TRUE
         IN  [i \in 1..n |->
                 TaskKw(fn,
                        [k \in 1..Len(args) |->
                            IF IsArrayArg(args[k])
                            THEN Key(args[k][1],
                                     IF npartitions(h[args[k][1]]) = 1
                                     THEN 0 ELSE i - 1)
                            ELSE args[k]],
                        kw)]

\* The functions mapped over partitions: "same" keeps the rows of a
\* partition, "drop" is length-changing (it drops a row), "len" returns an
\* int; "getitem" is operator.getitem with the key kw.
Funcs == {"same", "drop", "len"}

\* The keys of Array.__getitem__ that _getitem_trivial_inner serves.
TrivialKeys == {"field", "fields", "emptyslice", "ellipsis"}

\* What applying fn to a partition of form f really gives (an integer key
\* selects one row of the partition).
FnForm(fn, kw, f) ==
    IF f \in Raising THEN f
    ELSE IF f = "nonarray" THEN "typeerror"
    ELSE IF fn = "len" THEN "nonarray"
    ELSE IF fn = "getitem" /\ kw = "field"
         THEN (IF f = "record" THEN "leaf" ELSE "error")
    ELSE IF fn = "getitem" /\ kw = "fields"
         THEN (IF f = "record" THEN "record" ELSE "error")
    ELSE IF fn = "getitem" /\ kw \notin TrivialKeys
         THEN (IF f \in {"nested", "bool"} THEN "leaf" ELSE "error")
    ELSE f

\* The rows fn leaves of a partition of r rows.
FnRows(fn, r) == IF fn = "drop" THEN Max(r - 1, 0) ELSE r

\* The form the partitions of a partitionwise result really have.
LayerForm(h, fn, kw, args, lay, div) ==
    LET fs == {KeyForm(h, lay[i].args[k]) :
                  i \in 1..Len(lay), k \in {j \in 1..Len(args) : IsArrayArg(args[j])}}
    IN  IF ~Aligns(h, args) \/ Len(lay) < Len(div) - 1 \/ "error" \in fs
        THEN "error"
        ELSE IF fs \cap {"typeerror", "nonarray"} # {} THEN "typeerror"
        ELSE FnForm(fn, kw, h[args[FirstArrayPos(args)][1]].form)

\* The rows the tasks of a partitionwise layer really yield.
LayerRows(h, fn, args, lay, form) ==
    [i \in 1..Len(lay) |->
        IF form \notin ArrayForms THEN 0
        ELSE FnRows(fn, KeyRows(h, lay[i].args[FirstArrayPos(args)]))]

\* map_partitions(func, *args, meta=meta): the result takes the divisions
\* of args[0].  Result: [arr, sched, err].
map_partitions(h, fn, args, meta) ==
    LET lay == partitionwise_layer(h, fn, args, "none")
    IN  IF ~IsArrayArg(args[1]) THEN Raise("AttributeError", 0)
        ELSE LET div == h[args[1][1]].div
                 form == LayerForm(h, fn, "none", args, lay, div)
             IN  new_array_object(div, lay, LayerRows(h, fn, args, lay, form),
                                  form, meta)

\* calculate_known_divisions without its quick return: the lengths are
\* computed whether the divisions are known or not.
calculate_known_divisions_always(h, id) ==
    LET a == h[id]
        lens == map_partitions(h, "len", <<ArrayArg(id)>>, "none")
        nums == [k \in 1..npartitions(a) |-> a.rows[k]]
    IN  IF lens.err # "none"
        THEN [div |-> a.div, sched |-> lens.sched, err |-> lens.err]
        ELSE IF lens.arr.form \in Raising
        THEN [div |-> a.div, sched |-> lens.sched + 1,
              err |-> IF lens.arr.form = "typeerror" THEN "TypeError"
                      ELSE "ExecutionError"]
        ELSE IF npartitions(a) > 1
        THEN [div |-> <<0>> \o CumSum(nums), sched |-> lens.sched + 1,
              err |-> "none"]
        ELSE [div |-> <<0, nums[1]>>, sched |-> lens.sched + 1, err |-> "none"]

\* calculate_known_divisions(array) for the Array at position id of the heap
\* h: array.map_partitions(len).compute() when the divisions are not known.
\* Result: [div, sched, err].
calculate_known_divisions(h, id) ==
    LET a == h[id]
    IN  IF known_divisions(a) THEN [div |-> a.div, sched |-> 0, err |-> "none"]
        ELSE LET lens == map_partitions(h, "len", <<ArrayArg(id)>>, "none")
                 nums == [k \in 1..npartitions(a) |-> a.rows[k]]
             IN  IF lens.err # "none"
                 THEN [div |-> a.div, sched |-> lens.sched, err |-> lens.err]
                 ELSE IF lens.arr.form \in Raising
                 THEN [div |-> a.div, sched |-> lens.sched + 1,
                       err |-> IF lens.arr.form = "typeerror" THEN "TypeError"
                               ELSE "ExecutionError"]
                 ELSE IF npartitions(a) > 1
                 THEN [div |-> <<0>> \o CumSum(nums), sched |-> lens.sched + 1,
                       err |-> "none"]
                 ELSE [div |-> <<0, nums[1]>>, sched |-> lens.sched + 1,
                       err |-> "none"]

\* (None,) * self.npartitions: one entry short of what clear_divisions
\* assigns; it would take a partition away.
clear_divisions_short(a) == Nones(npartitions(a))

\* Array.clear_divisions
clear_divisions(a) == Nones(npartitions(a) + 1)

(* --------------------------- core.py: reductions ----------------------- *)

\* The output key of a Scalar or a Record is its name alone.
NameKey(id) == <<id>>

\* An entry of a low-level graph: the key and the task that computes it.
Entry(key, task) == [key |-> key, task |-> task]

\* The agg task of a reduction over the partition keys in reverse order:
\* not what pw_reduction_with_agg_to_scalar builds.
agg_entry_reversed(rid, agg, n) ==
    Entry(NameKey(rid), Task(agg, <<[i \in 1..n |-> Key(rid, n - i)]>>))

\* dsk[name] = (agg, list(dsk.keys())): the keys of the n partition tasks
\* in the order they were inserted.
agg_entry(rid, agg, n) ==
    Entry(NameKey(rid), Task(agg, <<[i \in 1..n |-> Key(rid, i - 1)]>>))

\* pw_reduction_with_agg_to_scalar(array, func, agg) on the Array at
\* position id of the heap h; rid names the new layer.  Result: the graph
\* entries in insertion order, the Scalar's output keys and its metadata.
pw_reduction_with_agg_to_scalar(h, id, rid, func, agg) ==
    LET keys == dask_keys(h, id)
    IN  [dsk |-> Append([i \in 1..Len(keys) |->
                            Entry(Key(rid, i - 1), Task(func, <<keys[i]>>))],
                        agg_entry(rid, agg, Len(keys))),
         keys |-> <<NameKey(rid)>>,
         meta |-> "none"]

(* --------------------------- core.py: Record --------------------------- *)

\* The names a Record is asked for, and what a field of its metadata is: an
\* array, a record, anything else ("scalar"), or no field ("missing").
RecordFields == {"x", "y", "z"}

FieldKinds == {"array", "record", "scalar", "missing"}

\* A Record built without metadata (None) has no kind for any name.
NoMeta == [f \in RecordFields |-> "none"]

\* The metadata a Record is built with.
RecordMetas == [RecordFields -> FieldKinds] \cup {NoMeta}

\* A Record: its name is its one key.
Record(name, meta) == [name |-> name, meta |-> meta]

\* What awkward raises for a name that is not a field.
LookupErrors == {"IndexError", "KeyError"}

\* self._meta[key]: the kind of the field, or the exception raised; lookup
\* is what awkward raises for a missing field, None[key] is a TypeError.
record_meta_getitem(meta, key, lookup) ==
    IF meta = NoMeta THEN "TypeError"
    ELSE IF meta[key] = "missing" THEN lookup
    ELSE meta[key]

\* What Record.__getitem__ leaves: err the exception, obj the kind of the
\* object returned, dsk the entries of the new layer, new the Array built.
record_out(err, obj, dsk, keys, new) ==
    [err |-> err, obj |-> obj, dsk |-> dsk, keys |-> keys, new |-> new]

\* Record.__getitem__(key) on the Record rec; name names the new layer,
\* rowlen is the length of the field when it is an array.
Record_getitem(rec, key, name, rowlen, lookup) ==
    LET new_meta == record_meta_getitem(rec.meta, key, lookup)
        task == Task("getitem", <<NameKey(rec.name), Plain(key)>>)
    IN  IF new_meta \in LookupErrors \cup {"TypeError"}
        THEN record_out(new_meta, "none", << >>, << >>, << >>)
        ELSE IF new_meta = "array"
        THEN record_out("none", "Array", <<Entry(Key(name, 0), task)>>,
                        <<Key(name, 0)>>,
                        <<new_array_object(Nones(1 + 1), <<task>>, <<rowlen>>,
                                           "leaf", "leaf").arr>>)
        ELSE record_out("none", IF new_meta = "record" THEN "Record" ELSE "Scalar",
                        <<Entry(NameKey(name), task)>>, <<NameKey(name)>>, << >>)

\* An attribute access that reports every exception as a missing field:
\* not what Record.__getattr__ catches.
Record_getattr_catch_all(r) ==
    IF r.err # "none"
    THEN record_out("AttributeError", "none", << >>, << >>, << >>)
    ELSE r

\* Record.__getattr__(attr): r is what self.__getitem__(attr) has left.
Record_getattr(r) ==
    IF r.err \in {"IndexError", "KeyError"}
    THEN record_out("AttributeError", "none", << >>, << >>, << >>)
    ELSE r

(* --------------------------- lib/optimize.py --------------------------- *)

\* The fields a source declares.
Fields == {"a", "b", "c"}

\* The name of the layer at position i of a graph.
LayerName(i) == "L" \o ToString(i)

\* layer.indices[1][0] of a Blockwise layer, the second argument of its
\* function: a list of names (arg is their set) or one value (arg is the
\* value: a field name, "Ellipsis", "slice" for the empty slice, "0" for
\* the integer 0, or the name of the layer of a mask).
FnArg(list, arg) == [list |-> list, arg |-> arg]

NoArg == FnArg(FALSE, "none")

\* A layer of a HighLevelGraph.  kind "io" is an AwkwardIOLayer: fields are
\* the fields of the source, columns those it reads, projectable whether
\* its io_func has project_columns.  kind "blockwise" is a Blockwise layer
\* applying fn.  kind "materialized" is any other layer.
Layer(kind, fn, arg, columns, projectable) ==
    [kind |-> kind, fn |-> fn, arg |-> arg, columns |-> columns,
     projectable |-> projectable]

AwkwardIOLayer(columns, projectable) == Layer("io", "read", NoArg, columns, projectable)

Blockwise(fn, arg) == Layer("blockwise", fn, arg, {}, FALSE)

MaterializedLayer == Layer("materialized", "none", NoArg, {}, FALSE)

\* HighLevelGraph(layers, dependencies): deps[k] is the set of the
\* positions of the layers that layer k depends on.
HighLevelGraph(layers, deps) == [layers |-> layers, deps |-> deps]

\* dsk.dependents[name]
dependents(dsk, i) == {k \in 1..Len(dsk.layers) : i \in dsk.deps[k]}

\* AwkwardIOLayer.project_columns(columns): the layer rebuilt to read
\* exactly the columns given.
project_columns(layer, columns) == [layer EXCEPT !.columns = columns]

is_getitem(layer) == layer.kind = "blockwise" /\ layer.fn = "getitem"

requested_columns(layer) == IF layer.arg.list THEN layer.arg.arg ELSE {layer.arg.arg}

\* seed_columns of the layer at position i once the loop over its getitem
\* dependents has run.
seed_columns(dsk, i) ==
    UNION {requested_columns(dsk.layers[k]) :
              k \in {d \in dependents(dsk, i) : is_getitem(dsk.layers[d])}}

pio_layer_names(dsk) ==
    {i \in 1..Len(dsk.layers) :
        dsk.layers[i].kind = "io" /\ dsk.layers[i].projectable}

\* An optimizer that gives a source its unprojected layer back when the
\* seed is what the source reads already: not what optimize_iolayer_columns
\* does.
optimize_iolayer_columns_reset(dsk) ==
    HighLevelGraph(
        [i \in 1..Len(dsk.layers) |->
            IF i \in pio_layer_names(dsk) /\ seed_columns(dsk, i) # {}
            THEN (IF seed_columns(dsk, i) = dsk.layers[i].columns
                  THEN project_columns(dsk.layers[i], Fields)
                  ELSE project_columns(dsk.layers[i], seed_columns(dsk, i)))
            ELSE dsk.layers[i]],
        dsk.deps)

\* optimize_iolayer_columns(dsk), the NEW_METHOD branch.
optimize_iolayer_columns(dsk) ==
    IF pio_layer_names(dsk) = {} THEN dsk
    ELSE HighLevelGraph(
             [i \in 1..Len(dsk.layers) |->
                 IF i \in pio_layer_names(dsk) /\ seed_columns(dsk, i) # {}
                 THEN project_columns(dsk.layers[i], seed_columns(dsk, i))
                 ELSE dsk.layers[i]],
             dsk.deps)

\* dask.config.get("awkward.column-projection-optimization") for the value
\* the configuration holds, read as if it were always set: not the test of
\* basic_optimize.
column_projection_always(config) == TRUE

\* dask.config.get("awkward.column-projection-optimization")
column_projection_enabled(config) == config = "on"

\* The passes of basic_optimize after the column projection are dask's.
\* cull keeps the layers that the requested keys, those of the layer at
\* position t, depend on; a layer it drops is left as an empty place so
\* that positions keep naming layers.
RECURSIVE Needed(_, _)
Needed(dsk, t) == {t} \cup UNION {Needed(dsk, j) : j \in dsk.deps[t]}

CulledLayer == Layer("culled", "none", NoArg, {}, FALSE)

cull(dsk, t) ==
    HighLevelGraph(
        [i \in 1..Len(dsk.layers) |->
            IF i \in Needed(dsk, t) THEN dsk.layers[i] ELSE CulledLayer],
        [i \in 1..Len(dsk.layers) |->
            IF i \in Needed(dsk, t) THEN dsk.deps[i] ELSE {}])

\* optimize_blockwise and fuse_roots rewrite the tasks inside Blockwise
\* layers; what a source reads and what depends on what stay as they are.
optimize_blockwise(dsk) == dsk

fuse_roots(dsk) == dsk

(* --------------------------- core.py: __getitem__ ---------------------- *)

\* self.meta[key]: a field name or a list of field names needs metadata
\* with fields ("IndexError" otherwise); an empty slice or an Ellipsis
\* keeps the metadata; an integer gives the metadata of one row.
MetaGetitem(meta, key) ==
    IF key \in {"emptyslice", "ellipsis"} THEN meta
    ELSE IF key \in {"field", "fields"}
         THEN (IF meta # "record" THEN "IndexError"
               ELSE IF key = "field" THEN "leaf" ELSE "record")
    ELSE IF meta \in {"nested", "bool"} THEN "leaf"
    ELSE IF meta = "record" THEN "Record"
    ELSE "Scalar"

\* Array._getitem_trivial_inner(key) on the Array at position id of the heap
\* h; rows is what the tasks really yield when they yield arrays.
getitem_trivial_inner(h, id, key, rows) ==
    LET a == h[id]
        lay == partitionwise_layer(h, "getitem", <<ArrayArg(id)>>, key)
        meta == IF a.meta # "none" THEN MetaGetitem(a.meta, key) ELSE "none"
        form == LayerForm(h, "getitem", key, <<ArrayArg(id)>>, lay, a.div)
    IN  IF meta = "IndexError" THEN Raise("IndexError", 0)
        ELSE new_array_object(a.div, lay,
                              IF form \in ArrayForms THEN rows
                              ELSE [k \in 1..Len(lay) |-> 0],
                              form, meta)

\* The alignment test of Array._getitem_boolean_lazy_array.
boolean_misaligned(a, key) ==
    IF known_divisions(key) /\ known_divisions(a)
    THEN key.div # a.div
    ELSE npartitions(key) # npartitions(a)

\* zip(self.__dask_keys__(), key.__dask_keys__()) as getitem tasks.
boolean_layer(h, id, kid) ==
    LET s_keys == dask_keys(h, id)
        k_keys == dask_keys(h, kid)
        n == IF Len(s_keys) <= Len(k_keys) THEN Len(s_keys) ELSE Len(k_keys)
    IN  [i \in 1..n |-> Task("getitem", <<s_keys[i], k_keys[i]>>)]

\* Array._getitem_boolean_lazy_array(key): self at position id of the heap
\* h, the mask key at kid; rows is what the selection really keeps.
getitem_boolean_lazy_array(h, id, kid, rows) ==
    LET a == h[id]
        key == h[kid]
        lay == boolean_layer(h, id, kid)
        fs == {KeyForm(h, lay[i].args[1]) : i \in 1..Len(lay)}
        ks == {KeyForm(h, lay[i].args[2]) : i \in 1..Len(lay)}
        form == IF Len(lay) < npartitions(a) \/ ~(fs \subseteq ArrayForms)
                   \/ ~(ks \subseteq {"bool"})
                THEN "error" ELSE a.form
    IN  IF boolean_misaligned(a, key) THEN Raise("ValueError", 0)
        ELSE IF key.meta # "none" /\ a.meta = "none" THEN Raise("TypeError", 0)
        ELSE new_array_object(a.div, lay,
                              IF form \in ArrayForms THEN rows
                              ELSE [k \in 1..Len(lay) |-> 0],
                              form, IF key.meta # "none" THEN a.meta ELSE "none")

(* ------------------------------ the machine --------------------------- *)

\* arrays: the Arrays the caller holds.  last: the call that has just
\* returned or raised: what it was, the Arrays it built (new; they follow
\* the held ones in the numbering), which of them it returned (res, 0 for
\* none), its error, how many times it invoked the scheduler, and its
\* receiver as it was before the call.  NoEvent: no call is outstanding.
NoEvent ==
    [op |-> "none", self |-> 0, sel |-> Selector("none", << >>), key |-> "none",
     args |-> << >>, new |-> << >>, res |-> 0, err |-> "none", sched |-> 0,
     pre |-> NoArray, ret |-> 0, obj |-> "none", task |-> Task("none", << >>),
     dsk |-> << >>, keys |-> << >>]

Init ==
    /\ arrays = << >>
    /\ last = NoEvent

Ids == 1..Len(arrays)

\* Every Array there is: those held and those the last call built.
Heap == arrays \o last.new

\* The caller makes one call at a time.
Idle == last = NoEvent

\* The Arrays a call built that returns r.arr unless it raised.
Built(r) == IF r.err = "none" THEN <<r.arr>> ELSE << >>

ResId(r) == IF r.err = "none" THEN Len(arrays) + 1 ELSE 0

ObjOf(r) == IF r.err = "none" THEN "Array" ELSE "none"

\* Sources are built first (building a source commutes with every other
\* call), at most MaxSources of them.
IsSource(a) == \A k \in 1..Len(a.layer) : a.layer[k].fn = "data"

SourceRoom ==
    /\ Len(arrays) < MaxSources
    /\ \A id \in Ids : IsSource(arrays[id])

\* The forms of the sources.
SourceForms == {"nested", "bool", "record"}

FromAwkward ==
    /\ Idle
    /\ SourceRoom
    /\ \E nrows \in 1..MaxRows, nparts \in 1..MaxParts, form \in SourceForms :
        LET r == from_awkward(nrows, nparts, form)
        IN  /\ last' = [NoEvent EXCEPT !.op = "from_awkward", !.new = Built(r),
                                       !.res = ResId(r), !.err = r.err,
                                       !.sched = r.sched, !.obj = ObjOf(r)]
            /\ UNCHANGED arrays

NewArrayObject ==
    /\ Idle
    /\ SourceRoom
    /\ \E n \in 0..MaxParts :
        \E rows \in [1..n -> 0..MaxPartRows] :
            LET r == new_array_object_npartitions(rows, "nested")
            IN  /\ last' = [NoEvent EXCEPT !.op = "new_array_object",
                                           !.new = Built(r), !.res = ResId(r),
                                           !.err = r.err, !.sched = r.sched,
                                           !.obj = ObjOf(r)]
                /\ UNCHANGED arrays

\* a.partitions[sel]
Partitions ==
    /\ Idle
    /\ \E id \in Ids :
        \E sel \in Selectors(npartitions(arrays[id])) :
            LET r == Array_partitions(arrays, id, sel)
            IN  /\ last' = [NoEvent EXCEPT !.op = "partitions", !.self = id,
                                           !.sel = sel, !.new = Built(r),
                                           !.res = ResId(r), !.err = r.err,
                                           !.sched = r.sched, !.pre = arrays[id],
                                           !.obj = ObjOf(r)]
                /\ UNCHANGED arrays

\* The rows the partitions the Array at id exposes really hold.
ExposedRows(h, id) == [k \in 1..npartitions(h[id]) |-> KeyRows(h, Key(id, k - 1))]

\* The keys a[key] is called with besides an integer and an Array, and what
\* Array.__getitem__ tests of each: its type, whether a list holds an
\* integer, whether a slice is empty.  "fields" is a list of field names,
\* "intlist" a list of integers, "mixedlist" a list of field names and
\* integers.
GetitemKeys == TrivialKeys \cup {"intlist", "mixedlist", "slice", "tuple"}

KeyShape(key) ==
    [type |-> CASE key = "field" -> "str"
                [] key \in {"fields", "intlist", "mixedlist"} -> "list"
                [] key \in {"emptyslice", "slice"} -> "slice"
                [] key = "ellipsis" -> "ellipsis"
                [] OTHER -> "tuple",
     ints |-> key \in {"intlist", "mixedlist"},
     empty |-> key = "emptyslice"]

\* utils.is_empty_slice(key): key is the slice that selects everything.
is_empty_slice(k) == k.type = "slice" /\ k.empty

\* A dispatch that takes every list for a list of field names: not the
\* order of the tests of Array.__getitem__.
getitem_route_lists_first(k) ==
    IF k.type \in {"str", "list"} THEN "trivial"
    ELSE IF is_empty_slice(k) THEN "trivial"
    ELSE IF k.type = "ellipsis" THEN "trivial"
    ELSE "NotImplementedError"

\* The branch Array.__getitem__ takes for a key of shape k.
getitem_route(k) ==
    IF k.type = "list" /\ k.ints THEN "NotImplementedError"
    ELSE IF k.type \in {"str", "list"} THEN "trivial"
    ELSE IF is_empty_slice(k) THEN "trivial"
    ELSE IF k.type = "ellipsis" THEN "trivial"
    ELSE "NotImplementedError"

\* a[key] for a field name, a list of field names, an empty slice or an
\* Ellipsis.
GetitemTrivial ==
    /\ Idle
    /\ \E id \in Ids,
          key \in {k \in GetitemKeys : getitem_route(KeyShape(k)) = "trivial"} :
        LET r == getitem_trivial_inner(arrays, id, key, ExposedRows(arrays, id))
        IN  /\ last' = [NoEvent EXCEPT !.op = "getitem", !.self = id, !.key = key,
                                       !.new = Built(r), !.res = ResId(r),
                                       !.err = r.err, !.sched = r.sched,
                                       !.pre = arrays[id], !.obj = ObjOf(r)]
            /\ UNCHANGED arrays

\* The indices a[i] is called with: those the divisions d hold, and 0.
Indices(d) == ((0 - Last(d))..(Last(d) - 1)) \cup {0}

\* What Array._getitem_single_int leaves: heap is the heap after the call
\* followed by the Arrays the call built, res the position of the Array
\* returned (0: none), obj the kind of the object returned, task the task
\* of a Record or Scalar returned.
single_int_out(heap, res, err, sched, obj, task) ==
    [heap |-> heap, res |-> res, err |-> err, sched |-> sched, obj |-> obj,
     task |-> task]

NoTask == Task("none", << >>)

\* A result that keeps the divisions _getitem_trivial_inner gave it: not
\* what Array._getitem_single_int returns.
single_int_array_keeps_divisions(h2, sched, inner) ==
    single_int_out(Append(h2, inner.arr), Len(h2) + 1,
                   "none", sched + inner.sched, "Array", NoTask)

\* result = partition._getitem_trivial_inner(key); result._divisions =
\* (0, None); the partition is the last Array of the heap h2.
single_int_array(h2, sched, inner) ==
    single_int_out(Append(h2, [inner.arr EXCEPT !.div = <<0, None>>]), Len(h2) + 1,
                   "none", sched + inner.sched, "Array", NoTask)

\* The result for new_meta = partition.meta[key]: an Array when the row is
\* a list, a Record or a Scalar with the one task getitem(partition key, key)
\* otherwise; anything else is not supported.
single_int_result(h2, key, rowlen, sched, new_meta) ==
    IF new_meta = "leaf"
    THEN single_int_array(h2, sched,
                          getitem_trivial_inner(h2, Len(h2), ToString(key), <<rowlen>>))
    ELSE IF new_meta \notin {"Record", "Scalar"}
    THEN single_int_out(h2, 0, "NotImplementedError", sched, "none", NoTask)
    ELSE single_int_out(h2, 0, "none", sched, new_meta,
                        Task("getitem", <<Key(Len(h2), 0), Plain(key)>>))

\* partition = self.partitions[pidx] has been built (part); None[key] is a
\* TypeError.
single_int_partition(h1, key, rowlen, sched, part) ==
    IF part.err # "none"
    THEN single_int_out(h1, 0, part.err, sched + part.sched, "none", NoTask)
    ELSE IF part.arr.meta = "none"
    THEN single_int_out(h1, 0, "TypeError", sched + part.sched, "none", NoTask)
    ELSE single_int_result(Append(h1, part.arr), key, rowlen, sched + part.sched,
                           MetaGetitem(part.arr.meta, ToString(key)))

\* pidx, key = normalize_single_outer_inner_index(...) has given norm;
\* partitions[pidx] raises IndexError for a pidx that is out of range.
single_int_normalized(h1, id, rowlen, sched, norm) ==
    LET n == npartitions(h1[id])
        pidx == IF norm[1] < 0 THEN norm[1] + n ELSE norm[1]
    IN  IF pidx \notin 0..(n - 1)
        THEN single_int_out(h1, 0, "IndexError", sched, "none", NoTask)
        ELSE single_int_partition(h1, norm[2], rowlen, sched,
                                  Array_partitions(h1, id, Selector("int", <<pidx>>)))

\* The divisions (0, None) of the result stored on the receiver: not what
\* Array._getitem_single_int does.
single_int_divisions_on_self(h, id, index, rowlen, ckd) ==
    IF ckd.err # "none"
    THEN single_int_out(h, 0, ckd.err, ckd.sched, "none", NoTask)
    ELSE single_int_normalized([h EXCEPT ![id].div = <<0, None>>], id, rowlen,
                               ckd.sched,
                               normalize_single_outer_inner_index(ckd.div, index))

\* self._divisions = calculate_known_divisions(self) has given ckd.
single_int_divisions(h, id, index, rowlen, ckd) ==
    IF ckd.err # "none"
    THEN single_int_out(h, 0, ckd.err, ckd.sched, "none", NoTask)
    ELSE single_int_normalized([h EXCEPT ![id].div = ckd.div], id, rowlen, ckd.sched,
                               normalize_single_outer_inner_index(ckd.div, index))

\* Array._getitem_single_int(key) on the Array at position id of the heap h;
\* rowlen is the length of the selected row when it is a list.
getitem_single_int(h, id, index, rowlen) ==
    single_int_divisions(h, id, index, rowlen, calculate_known_divisions(h, id))

\* The call a[index] on the Array at id has left r.
SingleIntReturns(id, index, r) ==
    /\ arrays' = SubSeq(r.heap, 1, Len(arrays))
    /\ last' = [NoEvent EXCEPT !.op = "getitem_int", !.self = id, !.ret = index,
                               !.new = SubSeq(r.heap, Len(arrays) + 1, Len(r.heap)),
                               !.res = r.res, !.err = r.err, !.sched = r.sched,
                               !.pre = arrays[id], !.obj = r.obj, !.task = r.task]

\* a[i] for an integer i.
GetitemSingleInt ==
    /\ Idle
    /\ \E id \in Ids, rowlen \in 0..MaxPartRows :
        \E index \in Indices(calculate_known_divisions(arrays, id).div) :
            SingleIntReturns(id, index, getitem_single_int(arrays, id, index, rowlen))

\* a[mask] for a lazy boolean-mask Array; the selection keeps every row of
\* a partition or drops one.
GetitemBoolean ==
    /\ Idle
    /\ \E id \in Ids, kid \in Ids, keep \in {"same", "drop"} :
        /\ arrays[kid].meta = "bool"
        /\ LET rows == [k \in 1..npartitions(arrays[id]) |->
                           FnRows(keep, KeyRows(arrays, Key(id, k - 1)))]
               r == getitem_boolean_lazy_array(arrays, id, kid, rows)
           IN  /\ last' = [NoEvent EXCEPT !.op = "getitem_bool", !.self = id,
                                          !.args = <<ArrayArg(kid)>>,
                                          !.new = Built(r), !.res = ResId(r),
                                          !.err = r.err, !.sched = r.sched,
                                          !.pre = arrays[id], !.obj = ObjOf(r)]
               /\ UNCHANGED arrays

\* a[key] for a list holding an integer, a non-empty slice or a tuple.
GetitemRejected ==
    /\ Idle
    /\ \E id \in Ids,
          key \in {k \in GetitemKeys :
                      getitem_route(KeyShape(k)) = "NotImplementedError"} :
        /\ last' = [NoEvent EXCEPT !.op = "getitem", !.self = id, !.key = key,
                                   !.err = "NotImplementedError",
                                   !.pre = arrays[id]]
        /\ UNCHANGED arrays

\* The argument lists of map_partitions: one or two positional arguments,
\* Arrays or the plain value 1, at least one of them an Array.
ArgLists ==
    LET one == {ArrayArg(id) : id \in Ids} \cup {Plain(1)}
    IN  {args \in {<<x>> : x \in one} \cup {<<x, y>> : x \in one, y \in one} :
            ArrayArgIds(args) # {}}

\* map_partitions(fn, *args), and with declared the call of
\* Array.__array_ufunc__, which passes the metadata it derived from its
\* inputs' metadata.
\* The Array a.map_partitions(func, *args) is called on: the first argument
\* of map_partitions when it is an Array (0: a plain value comes first).
Receiver(args) == IF IsArrayArg(args[1]) THEN args[1][1] ELSE 0

MapPartitions ==
    /\ Idle
    /\ \E fn \in Funcs, args \in ArgLists, declared \in BOOLEAN :
        /\ declared =>
              /\ fn = "same"
              /\ \A id \in ArrayArgIds(args) : arrays[id].meta # "none"
        /\ LET meta == IF declared THEN arrays[args[FirstArrayPos(args)][1]].meta
                       ELSE "none"
               r == map_partitions(arrays, fn, args, meta)
           IN  /\ last' = [NoEvent EXCEPT !.op = "map_partitions", !.key = fn,
                                          !.self = Receiver(args),
                                          !.pre = IF Receiver(args) = 0 THEN NoArray
                                                  ELSE arrays[Receiver(args)],
                                          !.args = args, !.new = Built(r),
                                          !.res = ResId(r), !.err = r.err,
                                          !.sched = r.sched, !.obj = ObjOf(r)]
               /\ UNCHANGED arrays

\* Array._compute_divisions
ComputeDivisions ==
    /\ Idle
    /\ \E id \in Ids :
        LET ckd == calculate_known_divisions(arrays, id)
        IN  /\ arrays' = IF ckd.err = "none" THEN [arrays EXCEPT ![id].div = ckd.div]
                         ELSE arrays
            /\ last' = [NoEvent EXCEPT !.op = "compute_divisions", !.self = id,
                                       !.err = ckd.err, !.sched = ckd.sched,
                                       !.pre = arrays[id]]

\* Array.clear_divisions
ClearDivisions ==
    /\ Idle
    /\ \E id \in Ids :
        /\ arrays' = [arrays EXCEPT ![id].div = clear_divisions(arrays[id])]
        /\ last' = [NoEvent EXCEPT !.op = "clear_divisions", !.self = id,
                                   !.pre = arrays[id]]

\* Array.__len__
LenCall ==
    /\ Idle
    /\ \E id \in Ids :
        LET ckd == calculate_known_divisions(arrays, id)
        IN  /\ arrays' = IF ckd.err = "none" THEN [arrays EXCEPT ![id].div = ckd.div]
                         ELSE arrays
            /\ last' = [NoEvent EXCEPT !.op = "len", !.self = id, !.err = ckd.err,
                                       !.sched = ckd.sched, !.pre = arrays[id],
                                       !.ret = IF ckd.err = "none" THEN Last(ckd.div)
                                               ELSE 0]

\* The per-partition function and the aggregation of the reducers.
Reducers == {<<"count", "sum">>, <<"sum", "sum">>, <<"min", "min">>, <<"max", "max">>}

\* What pw_reduction_with_agg_to_scalar(array, func, agg) has left: r.
ReductionReturns(id, fa, r) ==
    /\ last' = [NoEvent EXCEPT !.op = "reduction", !.self = id, !.key = fa[1],
                               !.args = <<fa[2]>>, !.pre = arrays[id],
                               !.obj = "Scalar", !.dsk = r.dsk, !.keys = r.keys]
    /\ UNCHANGED arrays

\* A reducer over all partitions of an Array.
PwReduction ==
    /\ Idle
    /\ \E id \in Ids, fa \in Reducers :
        ReductionReturns(id, fa,
                         pw_reduction_with_agg_to_scalar(arrays, id, Len(arrays) + 1,
                                                         fa[1], fa[2]))

\* The caller keeps what the call returned, and with it the Arrays the call
\* built: the graph of the result refers to them.  The partition that a[i]
\* selects from on its way does not count as held.
Keep ==
    /\ ~Idle
    /\ last.new # << >>
    /\ Len(arrays) < MaxArrays
    /\ arrays' = Heap
    /\ last' = NoEvent

\* The caller drops what the call built, or takes a result that is no
\* Array.  A source is always kept: one that is dropped was never built.
Drop ==
    /\ ~Idle
    /\ last.op \notin {"from_awkward", "new_array_object"} \/ last.new = << >>
    /\ last' = NoEvent
    /\ UNCHANGED arrays

Next ==
    \/ FromAwkward
    \/ NewArrayObject
    \/ Partitions
    \/ GetitemTrivial
    \/ GetitemSingleInt
    \/ GetitemBoolean
    \/ GetitemRejected
    \/ MapPartitions
    \/ ComputeDivisions
    \/ ClearDivisions
    \/ LenCall
    \/ PwReduction
    \/ Keep
    \/ Drop

Spec == Init /\ [][Next]_vars

(* ---------------- normalize on every divisions sequence ---------------- *)

\* Non-decreasing divisions starting at 0, of 1..MaxDivParts partitions of
\* 0..MaxChunk rows each.
ValidDivisions ==
    UNION {{[k \in 1..(n + 1) |-> SumSeq(SubSeq(c, 1, k - 1))] :
               c \in [1..n -> 0..MaxChunk]} : n \in 1..MaxDivParts}

\* The inputs: valid divisions d and an index with -d[-1] <= index < d[-1].
InitNormalize ==
    /\ arrays = << >>
    /\ \E d \in ValidDivisions :
        \E index \in (0 - Last(d))..(Last(d) - 1) :
            last = [op |-> "input", d |-> d, index |-> index, res |-> <<0, 0>>]

Normalize ==
    /\ last.op = "input"
    /\ last' = [last EXCEPT !.op = "normalize",
                            !.res = normalize_single_outer_inner_index(last.d,
                                                                       last.index)]
    /\ UNCHANGED arrays

NextNormalize == Normalize

SpecNormalize == InitNormalize /\ [][NextNormalize]_vars

(* ---------------------- reductions on their own ------------------------ *)

\* One held Array of 0..MaxReduceParts partitions whose divisions are
\* unknown, as from_json builds it.
InitReduction ==
    /\ \E n \in 0..MaxReduceParts :
        \E rows \in [1..n -> 0..MaxPartRows] :
            arrays = <<new_array_object_npartitions(rows, "nested").arr>>
    /\ last = NoEvent

NextReduction ==
    \/ PwReduction
    \/ Drop

SpecReduction == InitReduction /\ [][NextReduction]_vars

\* Selections from a Record: a Record with any metadata is given, and one
\* field or attribute is asked of it.
InitRecord ==
    /\ arrays = << >>
    /\ \E meta \in RecordMetas :
        last = [NoEvent EXCEPT !.op = "record", !.self = 1, !.pre = Record(1, meta)]

\* The call on the Record has left r.
RecordReturns(op, key, lookup, r) ==
    /\ last' = [last EXCEPT !.op = op, !.key = key, !.args = <<lookup>>,
                            !.err = r.err, !.obj = r.obj, !.dsk = r.dsk,
                            !.keys = r.keys, !.new = r.new]
    /\ UNCHANGED arrays

\* rec[key]
RecordGetitem ==
    /\ last.op = "record"
    /\ \E key \in RecordFields, rowlen \in 0..MaxPartRows, lookup \in LookupErrors :
        RecordReturns("record_getitem", key, lookup,
                      Record_getitem(last.pre, key, 2, rowlen, lookup))

\* rec.attr
RecordGetattr ==
    /\ last.op = "record"
    /\ \E key \in RecordFields, rowlen \in 0..MaxPartRows, lookup \in LookupErrors :
        RecordReturns("record_getattr", key, lookup,
                      Record_getattr(Record_getitem(last.pre, key, 2, rowlen, lookup)))

NextRecord ==
    \/ RecordGetitem
    \/ RecordGetattr

SpecRecord == InitRecord /\ [][NextRecord]_vars

\* The graphs handed to the optimizer: up to MaxLayers layers, each a source
\* (projectable or not, reading all its fields) or derived from an earlier
\* layer: a selection of a field, of a list of fields, of everything (an
\* Ellipsis or the empty slice), of one row, of the rows of a mask held by
\* an earlier layer, another function applied partition by partition, or
\* a layer that is no Blockwise.
MaxLayers == 3

\* How many times in a row the optimizer is run on a graph.
MaxRuns == 2

SourceLayers == {AwkwardIOLayer(Fields, TRUE), AwkwardIOLayer(Fields, FALSE)}

\* Second arguments of getitem that name no field: a[...], a[:] and
\* map_partitions(operator.getitem, a, 0).
NonFieldKeys == {"Ellipsis", "slice", "0"}

\* The layers derived from one earlier layer.
DerivedLayers ==
    {Blockwise("getitem", FnArg(FALSE, f)) : f \in Fields \cup NonFieldKeys}
    \cup {Blockwise("getitem", FnArg(TRUE, fs)) : fs \in (SUBSET Fields) \ {{}}}
    \cup {Blockwise("other", NoArg), MaterializedLayer}

\* A graph is built before it is optimized: it starts without layers.
InitOptimize ==
    /\ arrays = << >>
    /\ last = [NoEvent EXCEPT !.op = "graph",
                              !.dsk = HighLevelGraph(<< >>, << >>),
                              !.pre = HighLevelGraph(<< >>, << >>)]

\* The graph with one more layer, which depends on the layers deps.
Grow(dsk, layer, deps) ==
    HighLevelGraph(Append(dsk.layers, layer), Append(dsk.deps, deps))

\* The graphs that one more collection makes of the graph dsk: a source,
\* a layer derived from the layer j, or the selection from the layer j of
\* the rows of the mask that the layer m holds.
Grown(dsk) ==
    LET n == Len(dsk.layers)
    IN  {Grow(dsk, layer, {}) : layer \in SourceLayers}
        \cup {Grow(dsk, layer, {j}) : layer \in DerivedLayers, j \in 1..n}
        \cup {Grow(dsk, Blockwise("getitem", FnArg(FALSE, LayerName(m))), {j, m}) :
                 j \in 1..n, m \in 1..n}

\* A collection is built on the graph.
AddLayer ==
    /\ last.op = "graph"
    /\ Len(last.dsk.layers) < MaxLayers
    /\ \E g \in Grown(last.dsk) :
        last' = [last EXCEPT !.dsk = g, !.pre = g]
    /\ UNCHANGED arrays

\* dsk = optimize_iolayer_columns(dsk); last.pre is the graph handed in,
\* last.keys the seed_columns the loop has computed for each layer.
Optimize ==
    /\ last.op \in {"graph", "optimize"}
    /\ last.ret < MaxRuns
    /\ last' = [last EXCEPT !.op = "optimize", !.pre = last.dsk,
                            !.dsk = optimize_iolayer_columns(last.dsk),
                            !.keys = [i \in 1..Len(last.dsk.layers) |->
                                         seed_columns(last.dsk, i)],
                            !.ret = last.ret + 1]
    /\ UNCHANGED arrays

NextOptimize ==
    \/ AddLayer
    \/ Optimize

SpecOptimize == InitOptimize /\ [][NextOptimize]_vars

\* basic_optimize(dsk, keys) step by step: last.pre is the graph it was
\* called with, last.dsk the graph so far, last.self the layer whose keys
\* are requested, last.key the configuration switch, last.args the passes
\* that have run and last.keys the graph each of them was handed.
BasicOptimize ==
    /\ last.op = "graph"
    /\ \E t \in 1..Len(last.dsk.layers), config \in {"on", "off"} :
        last' = [last EXCEPT !.op = "basic_optimize", !.self = t, !.key = config]
    /\ UNCHANGED arrays

\* The pass named pass has been handed last.dsk and has returned dsk.
PassReturns(op, pass, dsk) ==
    /\ last' = [last EXCEPT !.op = op, !.dsk = dsk,
                            !.args = Append(last.args, pass),
                            !.keys = Append(last.keys, last.dsk)]
    /\ UNCHANGED arrays

ColumnProjection ==
    /\ last.op = "basic_optimize"
    /\ column_projection_enabled(last.key)
    /\ PassReturns("projected", "optimize_iolayer_columns",
                   optimize_iolayer_columns(last.dsk))

OptimizeBlockwise ==
    /\ \/ last.op = "projected"
       \/ last.op = "basic_optimize" /\ ~column_projection_enabled(last.key)
    /\ PassReturns("blockwise", "optimize_blockwise", optimize_blockwise(last.dsk))

Cull ==
    /\ last.op = "blockwise"
    /\ PassReturns("culled", "cull", cull(last.dsk, last.self))

FuseRoots ==
    /\ last.op = "culled"
    /\ PassReturns("returned", "fuse_roots", fuse_roots(last.dsk))

NextBasicOptimize ==
    \/ AddLayer
    \/ BasicOptimize
    \/ ColumnProjection
    \/ OptimizeBlockwise
    \/ Cull
    \/ FuseRoots

SpecBasicOptimize == InitOptimize /\ [][NextBasicOptimize]_vars

(* ------------------------------- C1 ------------------------------------ *)

\* C1: for every valid divisions sequence d (single partition and repeated
\* entries included) and every index i with -d[-1] <= i < d[-1],
\* normalize_single_outer_inner_index(d, i) returns (p, r) where, with j = i
\* for i >= 0 and j = i + d[-1] for i < 0, d[p] <= j < d[p+1] and
\* r = j - d[p]; a negative i gives what i + d[-1] gives; and for
\* d = (0,3,6,9): 5 -> (1,2), 8 -> (2,2), 0 -> (0,0).
C1_NormalizeLocates ==
    last.op = "normalize" =>
        LET d == last.d
            i == last.index
            j == IF i < 0 THEN i + Last(d) ELSE i
            p == last.res[1]
            r == last.res[2]
        IN  /\ p \in 0..(Len(d) - 2)
            /\ d[p + 1] <= j
            /\ j < d[p + 2]
            /\ r = j - d[p + 1]
            /\ i < 0 => last.res = normalize_single_outer_inner_index(d, i + Last(d))
            /\ (d = <<0, 3, 6, 9>> /\ i = 5) => last.res = <<1, 2>>
            /\ (d = <<0, 3, 6, 9>> /\ i = 8) => last.res = <<2, 2>>
            /\ (d = <<0, 3, 6, 9>> /\ i = 0) => last.res = <<0, 0>>

\* A negative index into divisions with an empty partition has been
\* normalized.
C1_Witness ==
    /\ last.op = "normalize"
    /\ last.d = <<0, 2, 2, 3>>
    /\ last.index = 0 - 1
    /\ last.res = <<2, 0>>

(* ------------------------------- C2 ------------------------------------ *)

\* C2: every Array there is exposes as many output keys as it has
\* partitions, len(divisions) - 1, and a call of _compute_divisions,
\* clear_divisions or len leaves its receiver with the number of output keys
\* it had before the call, whether the call returned or raised (Arrays of 0
\* and 1 partitions included).
C2_KeysMatchPartitions ==
    /\ \A id \in 1..Len(Heap) :
           /\ Len(dask_keys(Heap, id)) = Len(Heap[id].div) - 1
           /\ Len(dask_keys(Heap, id)) = npartitions(Heap[id])
    /\ last.op \in {"compute_divisions", "clear_divisions", "len"} =>
           Len(dask_keys(arrays, last.self)) = Len(last.pre.div) - 1

\* _compute_divisions has computed the divisions of an Array of two
\* partitions whose divisions were unknown.
C2_Witness ==
    /\ last.op = "compute_divisions"
    /\ last.err = "none"
    /\ npartitions(last.pre) = 2
    /\ ~known_divisions(last.pre)
    /\ known_divisions(arrays[last.self])
    /\ Len(dask_keys(arrays, last.self)) = 2

(* ------------------------------- C3 ------------------------------------ *)

\* Divisions whose entries are all known, or all unknown.
AllKnown(d) == \A k \in 1..Len(d) : d[k] # None

AllNone(d) == \A k \in 1..Len(d) : d[k] = None

\* C3 as stated: the divisions of every Array there is are entirely known
\* or entirely unknown.
C3_AllKnownOrAllUnknown ==
    \A id \in 1..Len(Heap) : AllKnown(Heap[id].div) \/ AllNone(Heap[id].div)

\* C3, amended: the divisions of every Array there is are entirely known,
\* entirely unknown, or exactly (0, None); single-integer indexing gives its
\* array-shaped result the divisions (0, None), and every other operation,
\* called while all held Arrays have entirely known or entirely unknown
\* divisions, returns an Array that has entirely known or entirely unknown
\* divisions.
C3_KnownUnknownOrOpenRow ==
    /\ \A id \in 1..Len(Heap) :
           \/ AllKnown(Heap[id].div)
           \/ AllNone(Heap[id].div)
           \/ Heap[id].div = <<0, None>>
    /\ (last.op = "getitem_int" /\ last.res # 0) => Heap[last.res].div = <<0, None>>
    /\ ( /\ last.op # "getitem_int"
         /\ last.res # 0
         /\ \A id \in Ids : AllKnown(arrays[id].div) \/ AllNone(arrays[id].div) )
       => (AllKnown(Heap[last.res].div) \/ AllNone(Heap[last.res].div))

\* a[i] has returned an Array for a row that is a list.
C3_Witness ==
    /\ last.op = "getitem_int"
    /\ last.err = "none"
    /\ last.obj = "Array"
    /\ last.res # 0
    /\ known_divisions(arrays[last.self])

(* ------------------------------- C4 ------------------------------------ *)

\* The rows the Array at position id of the heap h yields when computed.
RealizedRows(h, id) == SumSeq(ExposedRows(h, id))

\* C4: for every Array there is whose divisions are known and whose
\* partitions compute to arrays, the divisions are non-decreasing and their
\* last entry is the number of rows the Array yields when computed.
C4_KnownDivisionsMatchRows ==
    \A id \in 1..Len(Heap) :
        (known_divisions(Heap[id]) /\ Heap[id].form \in ArrayForms) =>
            /\ \A k \in 1..(Len(Heap[id].div) - 1) :
                   Heap[id].div[k] <= Heap[id].div[k + 1]
            /\ Last(Heap[id].div) = RealizedRows(Heap, id)

(* ------------------------------- C5 ------------------------------------ *)

\* C5: when a.partitions[i] returns for an integer i in
\* range(a.npartitions), the result exposes exactly one output key, and the
\* one task of its layer is an alias of a's i-th output key; for every held
\* Array a, the keys that the layers of a.partitions[0], ...,
\* a.partitions[npartitions - 1] alias are, in this order, the output keys
\* of a.
C5_PartitionIsItsKey ==
    /\ (last.op = "partitions" /\ last.sel.kind = "int" /\ last.err = "none") =>
           /\ last.res # 0
           /\ Len(dask_keys(Heap, last.res)) = 1
           /\ Heap[last.res].layer =
                  <<Task("alias", <<dask_keys(arrays, last.self)[last.sel.idx[1] + 1]>>)>>
    /\ \A id \in Ids :
           /\ \A j \in 0..(npartitions(arrays[id]) - 1) :
                  Len(partitions_layer(id, Selector("int", <<j>>))) = 1
           /\ [j \in 1..npartitions(arrays[id]) |->
                  partitions_layer(id, Selector("int", <<j - 1>>))[1].args[1]]
              = dask_keys(arrays, id)

\* a.partitions[1] has returned for an Array a of two partitions.
C5_Witness ==
    /\ last.op = "partitions"
    /\ last.sel = Selector("int", <<1>>)
    /\ last.err = "none"
    /\ npartitions(arrays[last.self]) = 2
    /\ Heap[last.res].layer = <<Task("alias", <<Key(last.self, 1)>>)>>

(* ------------------------------- C6 ------------------------------------ *)

\* d[i+1] - d[i] for the one partition i that sel selects.
SelectedSize(d, sel) == d[sel.idx[1] + 2] - d[sel.idx[1] + 1]

C7_PartitionsComputesNothing ==
    last.op = "partitions" =>
        /\ last.sched = 0
        /\ last.err = "none" =>
               Heap[last.res].layer =
                   [k \in 1..Len(last.sel.idx) |->
                       Task("alias", <<Key(last.self, last.sel.idx[k])>>)]

(* ------------------------------- C8 ------------------------------------ *)

\* The Array a and the mask key differ in their partition counts, or both
\* have known divisions and these differ.
MaskMisaligned(a, key) ==
    \/ npartitions(a) # npartitions(key)
    \/ known_divisions(a) /\ known_divisions(key) /\ a.div # key.div

\* The partition counts are equal and a or key has unknown divisions, or
\* both have the same known divisions.
MaskAligned(a, key) ==
    \/ npartitions(a) = npartitions(key)
          /\ (~known_divisions(a) \/ ~known_divisions(key))
    \/ known_divisions(a) /\ known_divisions(key) /\ a.div = key.div

\* C8: a[key] for a lazy boolean-mask Array key raises ValueError and
\* builds nothing when a and key are misaligned; it does not raise when they
\* are aligned; and when it returns, task i of the result is the selection
\* applied to a's i-th key and key's i-th key.
C8_MaskAlignment ==
    last.op = "getitem_bool" =>
        LET a == last.pre
            kid == last.args[1][1]
            key == arrays[kid]
        IN  /\ MaskMisaligned(a, key) => (last.err = "ValueError" /\ last.new = << >>)
            /\ MaskAligned(a, key) => last.err = "none"
            /\ last.err = "none" =>
                   Heap[last.res].layer =
                       [i \in 1..npartitions(a) |->
                           Task("getitem", <<Key(last.self, i - 1), Key(kid, i - 1)>>)]

\* C8 for an Array a that has metadata: as above.
C8_MaskAlignmentWithMeta ==
    (last.op = "getitem_bool" /\ last.pre.meta # NoMeta) => C8_MaskAlignment

(* ------------------------------- C9 ------------------------------------ *)

\* The Arrays among args differ in their partition counts, or all have
\* known divisions and these are not identical.
ArgsMisaligned(h, args) ==
    \/ \E x \in ArrayArgIds(args), y \in ArrayArgIds(args) :
           npartitions(h[x]) # npartitions(h[y])
    \/ /\ \A x \in ArrayArgIds(args) : known_divisions(h[x])
       /\ \E x \in ArrayArgIds(args), y \in ArrayArgIds(args) : h[x].div # h[y].div

\* C9: map_partitions over two or more Arrays (called directly, as the
\* method, or through __array_ufunc__) raises and returns no Array when
\* their partition counts differ (1 against N included) or when all have
\* known divisions that are not identical.
C9_MisalignedArgsRaise ==
    ( /\ last.op = "map_partitions"
      /\ Cardinality(ArrayArgIds(last.args)) >= 2
      /\ ArgsMisaligned(arrays, last.args) )
    => (last.err # "none" /\ last.new = << >>)

(* ------------------------------- C10 ----------------------------------- *)

\* The task of partition index i (0-based) that applies fn to the i-th key
\* of each Array among args and to each plain value as it is.
OwnIndexTask(fn, args, i) ==
    Task(fn, [k \in 1..Len(args) |->
                 IF IsArrayArg(args[k]) THEN Key(args[k][1], i) ELSE args[k]])

\* C10: the layer of what map_partitions returns holds exactly one task for
\* each partition index i in range(npartitions) of the result and of every
\* Array argument, and task i applies the function to, in argument order,
\* the i-th key of each Array argument and each plain value unchanged.
C10_OneTaskPerIndex ==
    (last.op = "map_partitions" /\ last.err = "none") =>
        /\ Len(Heap[last.res].layer) = npartitions(Heap[last.res])
        /\ \A id \in ArrayArgIds(last.args) :
               Len(Heap[last.res].layer) = npartitions(arrays[id])
        /\ \A i \in 1..Len(Heap[last.res].layer) :
               Heap[last.res].layer[i] = OwnIndexTask(last.key, last.args, i - 1)

\* C10 for arguments that C9 requires to be accepted: as above.
C10_OneTaskPerIndexAligned ==
    (last.op = "map_partitions" /\ ~ArgsMisaligned(arrays, last.args)) =>
        C10_OneTaskPerIndex

(* ------------------------------- C11 ----------------------------------- *)

\* C11: map_partitions over any mix of Arrays and plain values, a plain
\* value in first position included, does not fail for want of divisions
\* (AttributeError), and the Array it returns has the divisions of the first
\* Array among its arguments.
C11_DivisionsOfFirstArray ==
    last.op = "map_partitions" =>
        /\ last.err # "AttributeError"
        /\ last.err = "none" =>
               Heap[last.res].div = arrays[last.args[FirstArrayPos(last.args)][1]].div

\* C11 for calls whose first positional argument is an Array: as above.
C11_DivisionsOfLeadingArray ==
    (last.op = "map_partitions" /\ IsArrayArg(last.args[1])) =>
        C11_DivisionsOfFirstArray

(* ------------------------------- C12 ----------------------------------- *)

\* C12: a reduction over an Array of n partitions returns a Scalar whose
\* graph has exactly n + 1 tasks (5 for n = 4): for each partition i the
\* per-partition function applied to the i-th key of the Array, and one
\* task that applies the aggregation to the list of the keys of these n
\* tasks in the order 0..n-1; the one output key of the Scalar is the key
\* of the aggregation task.
C12_ReductionGraph ==
    last.op = "reduction" =>
        LET n == npartitions(arrays[last.self])
            rid == Len(arrays) + 1
        IN  /\ last.obj = "Scalar"
            /\ Len(last.dsk) = n + 1
            /\ n = 4 => Len(last.dsk) = 5
            /\ \A i \in 1..n :
                   last.dsk[i] = Entry(Key(rid, i - 1),
                                       Task(last.key, <<Key(last.self, i - 1)>>))
            /\ last.dsk[n + 1].task =
                   Task(last.args[1], <<[i \in 1..n |-> last.dsk[i].key]>>)
            /\ \A i \in 1..n : last.dsk[i].key # last.dsk[n + 1].key
            /\ last.keys = <<last.dsk[n + 1].key>>

\* count aggregated by sum has been built over an Array of 4 partitions.
C12_Witness ==
    /\ last.op = "reduction"
    /\ last.key = "count"
    /\ last.args = <<"sum">>
    /\ npartitions(arrays[last.self]) = 4
    /\ Len(last.dsk) = 5

(* ------------------------------- C13 ----------------------------------- *)

\* C13: a[key] for a list that holds an integer (with or without field
\* names), a non-empty slice or a tuple raises NotImplementedError, builds
\* nothing, computes nothing and leaves a as it was; for a field name, a
\* list of field names, an empty slice or an Ellipsis it never raises
\* NotImplementedError, and what it returns is a new Array with the
\* divisions of a, one getitem task per partition of a, a left as it was.
C13_GetitemDispatch ==
    last.op = "getitem" =>
        /\ last.key \in {"intlist", "mixedlist", "slice", "tuple"} =>
               /\ last.err = "NotImplementedError"
               /\ last.new = << >>
               /\ last.sched = 0
               /\ arrays[last.self] = last.pre
        /\ last.key \in {"field", "fields", "emptyslice", "ellipsis"} =>
               /\ last.err # "NotImplementedError"
               /\ last.err = "none" =>
                      /\ last.obj = "Array"
                      /\ last.res = Len(arrays) + 1
                      /\ Heap[last.res].div = last.pre.div
                      /\ Heap[last.res].layer =
                             [i \in 1..npartitions(last.pre) |->
                                 TaskKw("getitem", <<Key(last.self, i - 1)>>, last.key)]
                      /\ arrays[last.self] = last.pre

\* a[key] has been rejected for a list of field names and integers.
C13_Witness ==
    /\ last.op = "getitem"
    /\ last.key = "mixedlist"
    /\ last.err = "NotImplementedError"
    /\ npartitions(last.pre) = 2

(* ------------------------------- C14 ----------------------------------- *)

\* The partition a[i] has selected: the first Array the call built.
C14_Partition == last.new[1]

\* (partition_index, inner_index) of the index of the call in the divisions
\* the receiver has after it.
C14_Norm == normalize_single_outer_inner_index(arrays[last.self].div, last.ret)

C14_WitnessRecord ==
    /\ last.op = "getitem_int"
    /\ last.err = "none"
    /\ last.obj = "Record"

\* a[i] has returned a Scalar.
C14_WitnessScalar ==
    /\ last.op = "getitem_int"
    /\ last.err = "none"
    /\ last.obj = "Scalar"

\* a[i] returns when the partitions of a are awkward arrays and a holds
\* the row i.
C14_InRangeReturns ==
    (last.op = "getitem_int" /\ npartitions(last.pre) > 0
        /\ KeyForm(arrays, Key(last.self, 0)) \in ArrayForms
        /\ AllKnown(arrays[last.self].div) /\ Last(arrays[last.self].div) > 0) =>
        last.err \in {"none"}

(* ------------------------------- C15 ----------------------------------- *)

\* The calls that derive a collection from an Array.
Transformations ==
    {"partitions", "getitem", "getitem_int", "getitem_bool", "map_partitions",
     "reduction"}

\* The last call was a transformation of an Array.
Transformed == last.op \in Transformations /\ last.self # 0

\* C15 as stated: no transformation changes the graph, the name, the
\* metadata or the divisions of the Array it is called on.
C15_ReceiverUnchanged ==
    Transformed => arrays[last.self] = last.pre

\* C15: no transformation changes the graph, the name or the metadata of
\* the Array it is called on, and none changes its divisions, except that
\* a[i] for an integer i on an Array of unknown divisions leaves on it the
\* known divisions it computed.
C15_ReceiverUnchangedButDivisions ==
    Transformed =>
        /\ [arrays[last.self] EXCEPT !.div = last.pre.div] = last.pre
        /\ \/ arrays[last.self].div = last.pre.div
           \/ /\ last.op = "getitem_int"
              /\ ~AllKnown(last.pre.div)
              /\ AllKnown(arrays[last.self].div)
              /\ Len(arrays[last.self].div) = Len(last.pre.div)

\* a[i] has returned a Scalar and left known divisions on an Array of two
\* partitions whose divisions were unknown.
C15_Witness ==
    /\ last.op = "getitem_int"
    /\ last.err = "none"
    /\ last.obj = "Scalar"
    /\ AllNone(last.pre.div)
    /\ Len(last.pre.div) = 3
    /\ AllKnown(arrays[last.self].div)

(* ------------------------------- C16 ----------------------------------- *)

\* The heap len(a) was called in.
C16_Before == [arrays EXCEPT ![last.self] = last.pre]

\* The scheduler calls that building a.map_partitions(len) takes (its
\* metadata, from the first partition) before the lengths are computed.
C16_LengthsMeta == map_partitions(C16_Before, "len", <<ArrayArg(last.self)>>, "none").sched

C16_WitnessKnown ==
    /\ last.op = "len"
    /\ last.err = "none"
    /\ known_divisions(last.pre)
    /\ last.ret = 2

(* ------------------------------- C17 ----------------------------------- *)

\* The field asked of the Record is none of its fields.
C17_Missing == last.pre.meta # NoMeta /\ last.pre.meta[last.key] = "missing"

\* The one task of rec[key]: getitem applied to the key of rec and key.
C17_Task == Task("getitem", <<NameKey(last.pre.name), Plain(last.key)>>)

\* C17: rec[field] and rec.field return an Array of one partition for a
\* field that is an array, a Record for one that is a record, a Scalar
\* for any other field, and the layer of the result is the one task
\* getitem(key of rec, field); rec.field raises AttributeError for a name
\* that is no field of rec, and only then: without metadata both raise
\* the TypeError of the lookup.
C17_RecordGetitem ==
    last.op \in {"record_getitem", "record_getattr"} =>
        /\ (last.pre.meta # NoMeta /\ ~C17_Missing) =>
               /\ last.err = "none"
               /\ last.obj = CASE last.pre.meta[last.key] = "array" -> "Array"
                               [] last.pre.meta[last.key] = "record" -> "Record"
                               [] OTHER -> "Scalar"
               /\ Len(last.dsk) = 1
               /\ last.dsk[1].task = C17_Task
               /\ last.keys = <<last.dsk[1].key>>
               /\ last.obj = "Array" =>
                      /\ Len(last.new) = 1
                      /\ npartitions(last.new[1]) = 1
                      /\ last.new[1].layer = <<C17_Task>>
               /\ last.obj # "Array" => last.new = << >>
        /\ C17_Missing =>
               last.err = IF last.op = "record_getattr" THEN "AttributeError"
                          ELSE last.args[1]
        /\ last.pre.meta = NoMeta => last.err = "TypeError"
        /\ last.err = "AttributeError" =>
               (last.op = "record_getattr" /\ C17_Missing)

\* rec.x has raised AttributeError for a Record without a field x.
C17_Witness ==
    /\ last.op = "record_getattr"
    /\ C17_Missing
    /\ last.err = "AttributeError"

\* rec[x] has returned an Array.
C17_WitnessArray ==
    /\ last.op = "record_getitem"
    /\ last.obj = "Array"
    /\ Len(last.new) = 1

\* rec.x has raised the TypeError of a Record without metadata.
C17_WitnessPropagates ==
    /\ last.op = "record_getattr"
    /\ last.pre.meta = NoMeta
    /\ last.err = "TypeError"

(* ------------------------------- C18 ----------------------------------- *)

\* A layer that selects a field or a list of fields.
FieldSelection(layer) ==
    /\ layer.kind = "blockwise"
    /\ layer.fn = "getitem"
    /\ IF layer.arg.list THEN layer.arg.arg \subseteq Fields
       ELSE layer.arg.arg \in Fields

\* The fields that the field selections among the direct dependents of
\* layer i request.
FieldSeed(dsk, i) ==
    UNION {IF dsk.layers[k].arg.list THEN dsk.layers[k].arg.arg
           ELSE {dsk.layers[k].arg.arg} :
              k \in {d \in 1..Len(dsk.layers) :
                        i \in dsk.deps[d] /\ FieldSelection(dsk.layers[d])}}

\* Layer i is a source that can be narrowed.
Projectable(dsk, i) == dsk.layers[i].kind = "io" /\ dsk.layers[i].projectable

\* C18 as stated: the optimizer leaves the dependencies and every layer as
\* they were, except that a projectable source whose direct dependents
\* select fields is rebuilt to read exactly the fields they select.
C18_NarrowedToFieldSeed ==
    last.op = "optimize" =>
        /\ last.dsk.deps = last.pre.deps
        /\ Len(last.dsk.layers) = Len(last.pre.layers)
        /\ \A i \in 1..Len(last.pre.layers) :
               last.dsk.layers[i] =
                   IF Projectable(last.pre, i) /\ FieldSeed(last.pre, i) # {}
                   THEN project_columns(last.pre.layers[i], FieldSeed(last.pre, i))
                   ELSE last.pre.layers[i]

\* Every getitem layer of the graph handed in selects fields.
OnlyFieldSelections ==
    \A k \in 1..Len(last.pre.layers) :
        (last.pre.layers[k].kind = "blockwise" /\ last.pre.layers[k].fn = "getitem")
            => FieldSelection(last.pre.layers[k])

\* The statement of C18 for the graphs whose getitem layers all select
\* fields.
C18_NarrowedWhenOnlyFieldSelections ==
    OnlyFieldSelections => C18_NarrowedToFieldSeed

\* The source of fields a, b, c with the one dependent [a, c] has been
\* narrowed to a, c.
C18_Scenario ==
    /\ last.op = "optimize"
    /\ Len(last.pre.layers) = 2
    /\ last.pre.layers[1] = AwkwardIOLayer({"a", "b", "c"}, TRUE)
    /\ last.pre.layers[2] = Blockwise("getitem", FnArg(TRUE, {"a", "c"}))
    /\ last.dsk.layers[1].columns = {"a", "c"}

(* ------------------------------- C19 ----------------------------------- *)

\* C19 as stated: the seed set of a projectable source is the union of the
\* fields that the field selections among its direct dependents request,
\* and holds nothing that is not a field name.
C19_SeedIsFieldNames ==
    last.op = "optimize" =>
        \A i \in 1..Len(last.pre.layers) :
            Projectable(last.pre, i) =>
                /\ last.keys[i] = FieldSeed(last.pre, i)
                /\ last.keys[i] \subseteq Fields

\* The field names of a seed set are those the field selections among the
\* direct dependents request (no other layer adds a field), and whatever
\* else it holds is the second argument of a getitem among them.
C19_SeedOfGetitemDependents ==
    last.op = "optimize" =>
        \A i \in 1..Len(last.pre.layers) :
            Projectable(last.pre, i) =>
                /\ last.keys[i] \cap Fields = FieldSeed(last.pre, i)
                /\ \A c \in last.keys[i] \ Fields :
                       \E k \in 1..Len(last.pre.layers) :
                           /\ i \in last.pre.deps[k]
                           /\ last.pre.layers[k] = Blockwise("getitem", FnArg(FALSE, c))

(* ------------------------------- C20 ----------------------------------- *)

\* C20: the graph the optimizer returns when it is run on the graph it has
\* returned is that graph: same layers, same columns read, same
\* dependencies.
C20_Idempotent ==
    (last.op = "optimize" /\ last.ret >= 2) => last.dsk = last.pre

\* The optimizer has run twice on a graph of two sources, one of them
\* narrowed to the fields a and c.
C20_Witness ==
    /\ last.op = "optimize"
    /\ last.ret = 2
    /\ Len(last.dsk.layers) = 3
    /\ Projectable(last.dsk, 1)
    /\ last.dsk.layers[2].kind = "io"
    /\ last.dsk.layers[1].columns = {"a", "c"}

(* ------------------------------- C21 ----------------------------------- *)

\* The passes of basic_optimize in their order, with and without the
\* column projection.
C21_Passes ==
    IF last.key = "on"
    THEN <<"optimize_iolayer_columns", "optimize_blockwise", "cull", "fuse_roots">>
    ELSE <<"optimize_blockwise", "cull", "fuse_roots">>

\* C21: the passes basic_optimize has run so far are the first of:
\* the column projection (only with the switch on, once, handed the graph
\* basic_optimize was called with), optimize_blockwise, cull, fuse_roots;
\* with the switch off optimize_blockwise is handed the graph as it
\* was, every source reading all its fields, and when basic_optimize
\* returns all of them have run.
C21_PassOrder ==
    last.op \in {"basic_optimize", "projected", "blockwise", "culled", "returned"} =>
        /\ Len(last.args) <= Len(C21_Passes)
        /\ last.args = SubSeq(C21_Passes, 1, Len(last.args))
        /\ last.op = "returned" => last.args = C21_Passes
        /\ Len(last.args) >= 1 => last.keys[1] = last.pre
        /\ (last.key = "on" /\ Len(last.args) >= 2) =>
               last.keys[2] = optimize_iolayer_columns(last.pre)
        /\ (last.key = "off" /\ Len(last.args) >= 1) =>
               \A i \in 1..Len(last.keys[1].layers) :
                   last.keys[1].layers[i].kind = "io" =>
                       last.keys[1].layers[i].columns = Fields

\* basic_optimize has returned with the switch off for a graph whose
\* source a field selection depends on.
C21_Witness ==
    /\ last.op = "returned"
    /\ last.key = "off"
    /\ Len(last.pre.layers) = 2
    /\ last.pre.layers[1] = AwkwardIOLayer(Fields, TRUE)
    /\ last.pre.layers[2] = Blockwise("getitem", FnArg(FALSE, "a"))

\* basic_optimize has returned with the switch on and a source narrowed.
C21_WitnessOn ==
    /\ last.op = "returned"
    /\ last.key = "on"
    /\ last.dsk.layers[1].kind = "io"
    /\ last.dsk.layers[1].columns = {"a"}

(* ------------- new_array_object on its own: SpecConstruct -------------- *)

\* How many partitions the collections handed to new_array_object have.
MaxConstructParts == 3

\* What a partition of the collection gives when executed.
ConstructForms == ArrayForms \cup {"nonarray"} \cup Raising

\* The arguments of a call of new_array_object: a graph of n partitions,
\* npartitions=n, and the metadata ("none": meta=None).
InitConstruct ==
    /\ arrays = << >>
    /\ \E n \in 0..MaxConstructParts, form \in ConstructForms :
       \E rows \in [1..n -> 0..MaxPartRows],
          meta \in {"none"} \cup ({form} \cap ArrayForms) :
            last = [NoEvent EXCEPT
                      !.op = "arguments",
                      !.pre = Array(Nones(n + 1),
                                    [k \in 1..n |-> Task("data", << >>)],
                                    rows, form, meta)]

\* new_array_object(dsk, name, meta=meta, npartitions=n)
Construct ==
    /\ last.op = "arguments"
    /\ LET r == new_array_object(last.pre.div, last.pre.layer, last.pre.rows,
                                 last.pre.form, last.pre.meta)
       IN  last' = [last EXCEPT !.op = "new_array_object", !.new = Built(r),
                                !.err = r.err, !.sched = r.sched,
                                !.keys = r.req, !.obj = ObjOf(r)]
    /\ UNCHANGED arrays

NextConstruct == Construct

SpecConstruct == InitConstruct /\ [][NextConstruct]_vars

(* ------------------------------- C22 ----------------------------------- *)

\* C22: when new_array_object has to derive the metadata, the scheduler
\* is asked once, for one key, the key of the first partition, however
\* many partitions the collection has; with metadata given, or with no
\* partition to compute, it is not asked at all.
C22_OnlyFirstPartitionRequested ==
    last.op = "new_array_object" =>
        /\ last.sched <= 1
        /\ Len(last.keys) = last.sched
        /\ last.sched = 1 => last.keys = <<0>>
        /\ last.sched = 1 <=> (last.pre.meta = "none" /\ npartitions(last.pre) >= 1)

\* An Array of three partitions was constructed without metadata and the
\* scheduler was asked for the first partition only.
C22_Witness ==
    /\ last.op = "new_array_object"
    /\ npartitions(last.pre) = 3
    /\ last.pre.meta = "none"
    /\ Len(last.new) = 1
    /\ last.new[1].meta = last.pre.form
    /\ last.keys = <<0>>

(* ------------------------------- C23 ----------------------------------- *)

\* The derivation of the metadata failed: the first partition raised, it
\* is no awkward array, or there is no partition.
C23_InferenceFailed ==
    /\ last.op = "new_array_object"
    /\ last.pre.meta = "none"
    /\ \/ npartitions(last.pre) = 0
       \/ last.pre.form \in Raising \cup {"nonarray"}

\* C23: when no metadata is given and its derivation fails, for whatever
\* reason, new_array_object raises nothing and returns the Array with
\* metadata None.
C23_InferenceFailureNonFatal ==
    C23_InferenceFailed =>
        /\ last.err = "none"
        /\ Len(last.new) = 1
        /\ last.new[1].meta = "none"

\* What does hold: a failure with AttributeError, AssertionError or
\* TypeError (the first partition is no awkward array) is not fatal.
C23_CaughtFailureNonFatal ==
    (C23_InferenceFailed /\ npartitions(last.pre) >= 1 /\ last.pre.form # "error") =>
        /\ last.err = "none"
        /\ Len(last.new) = 1
        /\ last.new[1].meta = "none"

\* The call on a collection without partitions has raised IndexError.
C23_Scenario ==
    /\ C23_InferenceFailed
    /\ npartitions(last.pre) = 0
    /\ last.err = "IndexError"
    /\ last.new = << >>


(* ------------------- reducers.py: sum, min, max, count ------------------ *)

\* axis=None, the default of every reducer.
AxisNone == 99

\* The axes the reducers are called with.
MaxAxis == 2

Axes == {AxisNone} \cup ((0 - MaxAxis)..MaxAxis)

\* How many reducer calls are made one after the other.
MaxCalls == 2

\* ndim(array): None without metadata.
ndim(a) ==
    IF a.meta = "none" THEN None
    ELSE IF a.meta \in {"nested", "bool"} THEN 2
    ELSE 1

\* Keyword arguments: a function from the names given to their values.
NoKwargs == [k \in {} |-> "none"]

\* {**a, **b}
Overlay(a, b) ==
    [k \in DOMAIN a \cup DOMAIN b |-> IF k \in DOMAIN b THEN b[k] ELSE a[k]]

\* The flags the callers of the reducers choose among.
Flags == {"True", "False"}

\* tokenize(func, *args, **kwargs): a deterministic fingerprint, taken to be
\* free of collisions: it is what it was computed from.  id is the Array
\* among the arguments.
tokenize(func, id, kwargs) == [func |-> func, id |-> id, kwargs |-> kwargs]

\* tokenize(array) of the held Array id: the fingerprint of its name.
tokenize_array(id) == tokenize("source", id, NoKwargs)

\* name = f"{name}-{token}"
LayerKeyName(prefix, token) == <<prefix, token>>

\* What a reducer returns or raises.
Returned(kind, name, dsk) == [kind |-> kind, name |-> name, dsk |-> dsk]

NoName == LayerKeyName("none", tokenize("none", 0, NoKwargs))

Raised(err) == Returned(err, NoName, << >>)

\* map_partitions(func, collection, name=name, **kwargs) as far as the
\* names go: the layer name and, per partition, the task of that key.
map_partitions_named(h, id, func, name, kwargs) ==
    LET lname == LayerKeyName(IF name = "none" THEN func ELSE name,
                              tokenize(func, id, kwargs))
    IN  Returned("Array", lname,
                 [i \in 1..npartitions(h[id]) |->
                     Entry(<<lname, i - 1>>, TaskKw(func, <<Key(id, i - 1)>>, kwargs))])

\* token = tokenize(array); name = func.__name__ if name is None else name;
\* name = f"{name}-{token}"
reduction_name(token, func, name) ==
    LayerKeyName(IF name = "none" THEN func ELSE name, token)

\* pw_reduction_with_agg_to_scalar(array, func, agg, name=name, **kwargs)
\* on an Array of n partitions whose fingerprint is token; src[i] is the
\* key of its partition i-1.
pw_reduction_named(src, token, func, agg, name, kwargs) ==
    LET lname == reduction_name(token, func, name)
        n == Len(src)
    IN  Returned("Scalar", lname,
                 Append([i \in 1..n |->
                            Entry(<<lname, i - 1>>, TaskKw(func, <<src[i]>>, kwargs))],
                        Entry(<<lname>>,
                              Task(agg, <<[i \in 1..n |-> <<lname, i - 1>>]>>))))

\* TrivialPartitionwiseOp.__init__
TrivialPartitionwiseOp(func, kwargs) == [func |-> func, name |-> func, kwargs |-> kwargs]

\* A __call__ that leaves the stored keyword arguments as they were: not
\* what TrivialPartitionwiseOp.__call__ does.
trivial_kwargs_untouched(op, kwargs) == op.kwargs

\* TrivialPartitionwiseOp.__call__: self._kwargs[k] = v for the call's
\* keyword arguments; the stored keyword arguments after the call.
trivial_kwargs(op, kwargs) == Overlay(op.kwargs, kwargs)

\* TrivialPartitionwiseOp.__call__(collection, **kwargs).  Result: the op
\* as the call leaves it and what map_partitions returns.
trivial_call(op, h, id, kwargs) ==
    [op |-> [op EXCEPT !.kwargs = trivial_kwargs(op, kwargs)],
     out |-> map_partitions_named(h, id, op.func, op.name, Overlay(op.kwargs, kwargs))]

\* _count_trivial, _min_trivial, _max_trivial, _sum_trivial
TrivialOps ==
    [f \in {"count", "min", "max", "sum"} |->
        TrivialPartitionwiseOp(f, [k \in {"axis"} |-> "1"])]

\* Reducer results: the module's ops as the call leaves them, the outcome
\* and the call of a trivial op made on the way, if any: the op and the
\* keyword arguments handed to it.
Outcome(ops, out, passed) == [ops |-> ops, out |-> out, passed |-> passed]

NotPassed == << >>

Passed(f, kwargs) == <<[f |-> f, kwargs |-> kwargs]>>

ViaTrivial(ops, f, h, id, kwargs) ==
    LET c == trivial_call(ops[f], h, id, kwargs)
    IN  Outcome([ops EXCEPT ![f] = c.op], c.out, Passed(f, kwargs))

ReducerKwargs(keepdims, mask_identity) ==
    [k \in {"keepdims", "mask_identity", "flatten_records"} |->
        IF k = "keepdims" THEN keepdims
        ELSE IF k = "mask_identity" THEN mask_identity ELSE "False"]

\* axis = array.ndim + axis + 1
translate_axis(nd, axis) == nd + axis + 1

\* sum(array, axis, keepdims, mask_identity, flatten_records)
sum(ops, h, id, axis, keepdims, mask_identity) ==
    IF axis # AxisNone /\ axis < 0 /\ ndim(h[id]) = None
    THEN Outcome(ops, Raised("TypeError"), NotPassed)
    ELSE LET ax == IF axis # AxisNone /\ axis < 0
                   THEN translate_axis(ndim(h[id]), axis) ELSE axis
         IN  IF ax = 1
             THEN ViaTrivial(ops, "sum", h, id, ReducerKwargs("False", "False"))
             ELSE IF ax = AxisNone
             THEN Outcome(ops, pw_reduction_named(dask_keys(h, id), tokenize_array(id),
                                                  "sum", "sum", "none", NoKwargs),
                          NotPassed)
             ELSE IF ax = 0
             THEN Outcome(ops, Raised("DaskAwkwardNotImplemented"), NotPassed)
             ELSE Outcome(ops, Raised("ValueError"), NotPassed)

\* _min_or_max(f, array, axis, **kwargs), as min and max call it: the
\* keyword arguments are keepdims, initial, mask_identity, flatten_records.
min_or_max(ops, f, h, id, axis, keepdims, mask_identity) ==
    LET nd == ndim(h[id])
        kwargs == Overlay(ReducerKwargs(keepdims, mask_identity),
                          [k \in {"initial"} |-> "None"])
        ax == IF axis # AxisNone /\ axis < 0 /\ nd # None
              THEN translate_axis(nd, axis) ELSE axis
    IN  IF ax = 1
        THEN ViaTrivial(ops, f, h, id, Overlay([k \in {"axis"} |-> "1"], kwargs))
        ELSE IF ax = AxisNone
        THEN Outcome(ops, pw_reduction_named(dask_keys(h, id), tokenize_array(id),
                                             f, f, "none", kwargs),
                     NotPassed)
        ELSE IF nd # None /\ (ax = 0 \/ ax = (0 - 1) * nd)
        THEN Outcome(ops, Raised("DaskAwkwardNotImplemented"), NotPassed)
        ELSE Outcome(ops, Raised("ValueError"), NotPassed)

\* count(array, axis, keepdims, mask_identity, flatten_records)
count(ops, h, id, axis, keepdims, mask_identity) ==
    LET kwargs == Overlay([k \in {"axis"} |-> "1"],
                          ReducerKwargs(keepdims, mask_identity))
        c == ViaTrivial(ops, "count", h, id, kwargs)
    IN  IF axis = 1 THEN c
        ELSE IF axis = AxisNone
        THEN Outcome(c.ops,
                     pw_reduction_named([i \in 1..Len(c.out.dsk) |-> c.out.dsk[i].key],
                                        c.out.name[2], "sum", "sum", "none", NoKwargs),
                     c.passed)
        ELSE IF axis # 0 /\ ndim(h[id]) = None
        THEN Outcome(ops, Raised("TypeError"), NotPassed)
        ELSE IF axis = 0 \/ axis = (0 - 1) * ndim(h[id])
        THEN Outcome(ops, Raised("DaskAwkwardNotImplemented"), NotPassed)
        ELSE Outcome(ops, Raised("ValueError"), NotPassed)

(* ------------------ the reducers on their own: SpecReducers ------------- *)

\* Two held Arrays of one and two partitions, with metadata of one or two
\* dimensions or without metadata; the module has just been imported.
InitReducers ==
    /\ \E f1 \in {"leaf", "nested"}, f2 \in {"leaf", "nested"}, known \in BOOLEAN :
        arrays = <<from_awkward(2, 2, f1).arr,
                   [from_awkward(1, 1, f2).arr EXCEPT
                       !.meta = IF known THEN f2 ELSE "none"]>>
    /\ last = [op |-> "import", ops |-> TrivialOps, calls |-> << >>]

\* The call fn(arrays[id], axis=axis, **kwargs) has left r; op tells a
\* reducer from a direct call of pw_reduction_with_agg_to_scalar or of a
\* trivial op.
ReducerReturns(op, fn, id, axis, agg, name, kwargs, r) ==
    /\ last' = [op |-> op, ops |-> r.ops,
                calls |-> Append(last.calls,
                                 [op |-> op, fn |-> fn, self |-> id, axis |-> axis,
                                  agg |-> agg,
                                  name |-> name, kwargs |-> kwargs, out |-> r.out,
                                  passed |-> r.passed])]
    /\ UNCHANGED arrays

ReducerCall(fn, id, axis, mask_identity, r) ==
    ReducerReturns("reducer", fn, id, axis, "none", "none",
                   ReducerKwargs("False", mask_identity), r)

SumCall ==
    /\ Len(last.calls) < MaxCalls
    /\ \E id \in Ids, axis \in Axes, mask_identity \in Flags :
        ReducerCall("sum", id, axis, mask_identity,
                    sum(last.ops, arrays, id, axis, "False", mask_identity))

MinMaxCall ==
    /\ Len(last.calls) < MaxCalls
    /\ \E f \in {"min", "max"}, id \in Ids, axis \in Axes, mask_identity \in Flags :
        ReducerCall(f, id, axis, mask_identity,
                    min_or_max(last.ops, f, arrays, id, axis, "False", mask_identity))

CountCall ==
    /\ Len(last.calls) < MaxCalls
    /\ \E id \in Ids, axis \in Axes, mask_identity \in Flags :
        ReducerCall("count", id, axis, mask_identity,
                    count(last.ops, arrays, id, axis, "False", mask_identity))

\* pw_reduction_with_agg_to_scalar called directly: with or without a name
\* and keyword arguments of the per-partition function.
PwReductionCall ==
    /\ Len(last.calls) < MaxCalls
    /\ \E id \in Ids, func \in {"sum", "min"}, agg \in {"sum", "min"},
          name \in {"none", "total"},
          kwargs \in {NoKwargs} \cup [{"mask_identity"} -> Flags] :
        ReducerReturns("pw_reduction", func, id, AxisNone, agg, name, kwargs,
                       Outcome(last.ops,
                               pw_reduction_named(dask_keys(arrays, id),
                                                  tokenize_array(id),
                                                  func, agg, name, kwargs),
                               NotPassed))

\* A trivial op of the module called directly, with any of its keyword
\* arguments given or left out.
TrivialKwargs ==
    UNION {[D -> Flags \cup {"0", "1"}] : D \in SUBSET {"axis", "keepdims"}}

TrivialOpCall ==
    /\ Len(last.calls) < MaxCalls
    /\ \E f \in {"sum", "count"}, id \in Ids, kwargs \in TrivialKwargs :
        /\ "axis" \in DOMAIN kwargs => kwargs["axis"] \in {"0", "1"}
        /\ "keepdims" \in DOMAIN kwargs => kwargs["keepdims"] \in Flags
        /\ ReducerReturns("trivial", f, id, AxisNone, "none", "none", kwargs,
                          ViaTrivial(last.ops, f, arrays, id, kwargs))

NextReducers ==
    \/ SumCall
    \/ MinMaxCall
    \/ CountCall
    \/ PwReductionCall
    \/ TrivialOpCall

SpecReducers == InitReducers /\ [][NextReducers]_vars

(* ------------------------------- C24 ----------------------------------- *)

\* The graph of call i.
C24_Graph(i) == last.calls[i].out.dsk

\* C24: key names are derived from what the key is computed from: in the
\* graphs of any two calls, a key that both hold is computed by the same
\* task (the same function, keyword arguments and inputs), so two
\* reductions over one Array that differ in the keyword arguments of the
\* per-partition function, in the aggregation or, under one explicit name,
\* in the function do not share a key name.
C24_KeysBindOneTask ==
    last.op # "import" =>
        \A i \in 1..Len(last.calls), j \in 1..Len(last.calls) :
            \A m \in 1..Len(C24_Graph(i)), n \in 1..Len(C24_Graph(j)) :
                C24_Graph(i)[m].key = C24_Graph(j)[n].key =>
                    C24_Graph(i)[m].task = C24_Graph(j)[n].task

\* What does hold: the layers of map_partitions, whose token takes in the
\* function, the arguments and the keyword arguments, bind a key to one
\* task, and so do reductions over different Arrays.
C24_MapPartitionsKeysBindOneTask ==
    last.op # "import" =>
        \A i \in 1..Len(last.calls), j \in 1..Len(last.calls) :
            (\/ last.calls[i].out.kind = "Array"
             \/ last.calls[j].out.kind = "Array"
             \/ last.calls[i].self # last.calls[j].self) =>
                \A m \in 1..Len(C24_Graph(i)), n \in 1..Len(C24_Graph(j)) :
                    C24_Graph(i)[m].key = C24_Graph(j)[n].key =>
                        C24_Graph(i)[m].task = C24_Graph(j)[n].task

\* max(a, mask_identity=True) and max(a, mask_identity=False) on the same
\* Array have returned Scalars of the same name whose tasks differ.
C24_Scenario ==
    /\ Len(last.calls) = 2
    /\ last.calls[1].op = "reducer" /\ last.calls[2].op = "reducer"
    /\ last.calls[1].fn = "max" /\ last.calls[2].fn = "max"
    /\ last.calls[1].self = last.calls[2].self
    /\ last.calls[1].out.kind = "Scalar" /\ last.calls[2].out.kind = "Scalar"
    /\ last.calls[1].out.name = last.calls[2].out.name
    /\ C24_Graph(1)[1].key = C24_Graph(2)[1].key
    /\ C24_Graph(1)[1].task.kw["mask_identity"] = "True"
    /\ C24_Graph(2)[1].task.kw["mask_identity"] = "False"

(* ------------------------------- C29 ----------------------------------- *)

\* The keyword arguments the first n calls handed to the trivial op f, laid
\* over those of its constructor, the later over the earlier.
RECURSIVE C29_Overlaid(_, _)
C29_Overlaid(f, n) ==
    IF n = 0 THEN TrivialOps[f].kwargs
    ELSE LET c == last.calls[n]
         IN  IF c.passed # NotPassed /\ c.passed[1].f = f
             THEN Overlay(C29_Overlaid(f, n - 1), c.passed[1].kwargs)
             ELSE C29_Overlaid(f, n - 1)

\* The keyword arguments that the trivial op of call i handed on to
\* map_partitions: those the name of its layer was derived from.
C29_Effective(i) ==
    LET out == last.calls[i].out
    IN  IF out.kind = "Array" THEN out.dsk[1].task.kw ELSE out.name[2].kwargs

\* C29: a trivial op keeps what it was called with: its stored keyword
\* arguments are those of the constructor overlaid by those of every call
\* made so far, nothing is removed, and every call hands on to
\* map_partitions the stored keyword arguments overlaid by its own.
C29_KwargsPersist ==
    last.op # "import" =>
        /\ \A f \in DOMAIN last.ops :
               last.ops[f].kwargs = C29_Overlaid(f, Len(last.calls))
        /\ \A i \in 1..Len(last.calls) :
               last.calls[i].passed # NotPassed =>
                   C29_Effective(i) = C29_Overlaid(last.calls[i].passed[1].f, i)

\* _sum_trivial was called with axis=0, and a later sum(a, axis=1), which
\* passes no axis, applied ak.sum with axis=0.
C29_Witness ==
    /\ Len(last.calls) = 2
    /\ last.calls[1].op = "trivial"
    /\ last.calls[1].fn = "sum"
    /\ last.calls[1].kwargs = [k \in {"axis"} |-> "0"]
    /\ last.calls[2].op = "reducer"
    /\ last.calls[2].fn = "sum"
    /\ last.calls[2].axis = 1
    /\ last.calls[2].out.kind = "Array"
    /\ last.calls[2].out.dsk[1].task.kw["axis"] = "0"
    /\ last.ops["sum"].kwargs["axis"] = "0"

(* ------------------------------- C30 ----------------------------------- *)

\* The last call is sum, min or max on an Array of known ndim.
C30_Reducer ==
    /\ last.op = "reducer"
    /\ Last(last.calls).fn \in {"sum", "min", "max"}
    /\ ndim(arrays[Last(last.calls).self]) # None

C30_Ndim == ndim(arrays[Last(last.calls).self])

C30_Kind == Last(last.calls).out.kind

\* C30: sum, min and max count a negative axis from the last dimension:
\* axis = -ndim is refused like axis 0 (DaskAwkwardNotImplemented), axis =
\* -1 on two dimensions gives the partitionwise Array of axis = 1, axis
\* None gives a Scalar, and no axis in -ndim..-1 ends in ValueError.
C30_NegativeAxisFromEnd ==
    C30_Reducer =>
        LET axis == Last(last.calls).axis
        IN  /\ axis = AxisNone => C30_Kind = "Scalar"
            /\ (axis < 0 /\ axis >= 0 - C30_Ndim) => C30_Kind # "ValueError"
            /\ axis = 0 - C30_Ndim => C30_Kind = "DaskAwkwardNotImplemented"
            /\ (C30_Ndim = 2 /\ axis = 0 - 1) => C30_Kind = "Array"

\* What does hold: axis None gives a Scalar, axis 1 an Array, axis 0 is
\* refused, and a negative axis is handled as the axis ndim + axis + 1.
C30_AxisHandled ==
    C30_Reducer =>
        LET axis == Last(last.calls).axis
            ax == IF axis # AxisNone /\ axis < 0 THEN C30_Ndim + axis + 1 ELSE axis
        IN  /\ ax = AxisNone => C30_Kind = "Scalar"
            /\ ax = 1 => C30_Kind = "Array"
            /\ ax = 0 => C30_Kind = "DaskAwkwardNotImplemented"
            /\ ax \notin {AxisNone, 0, 1} => C30_Kind = "ValueError"

\* sum(a, axis=-1) on an Array of two dimensions has raised ValueError.
C30_Scenario ==
    /\ C30_Reducer
    /\ Last(last.calls).fn = "sum"
    /\ C30_Ndim = 2
    /\ Last(last.calls).axis = 0 - 1
    /\ C30_Kind = "ValueError"


(* --------------------- lib/decorator.py: mapfilter --------------------- *)

\* A meta: None, a plain value ("0" is falsy), an awkward Array of some form,
\* or a tuple of values and Arrays.
MetaNone == [kind |-> "none", items |-> << >>]

MetaValue(v) == [kind |-> "value", items |-> <<v>>]

MetaArray(form) == [kind |-> "array", items |-> <<form>>]

MetaTuple(items) == [kind |-> "tuple", items |-> items]

\* How long the tuples of metas are.
MaxTuple == 2

MetaAtoms == {MetaValue(v) : v \in {"0", "1", "2"}} \cup {MetaArray(f) : f \in {"A", "B"}}

TupleAtoms == {MetaValue("1"), MetaArray("A"), MetaArray("B")}

Metas ==
    MetaAtoms
    \cup {MetaTuple(t) : t \in UNION {[1..n -> TupleAtoms] : n \in 0..MaxTuple}}

\* What awkward makes of the truth value of an Array (of a declared meta,
\* or of the result of comparing a plain value with an Array): it depends
\* on the content of the Array, and may raise ValueError.
ArrayTruth == {"True", "False", "ValueError"}

\* left != right for a left that is no Array and a right that is none
\* either: values of different types differ.
PyNe(left, right) == left.kind # right.kind \/ left.items # right.items

\* cmp of _compare_return_vals.  Result: the exception raised, or "none".
cmp(left, right, truth) ==
    IF left.kind = "array"
    THEN IF right.kind # "array" THEN "AttributeError"
         ELSE IF left.items # right.items THEN "ValueError" ELSE "none"
    ELSE IF right.kind = "array"
    THEN (IF truth = "False" THEN "none" ELSE "ValueError")
    ELSE IF PyNe(left, right) THEN "ValueError" ELSE "none"

\* for left_, right_ in zip(left, right): cmp(left_, right_), from the
\* pair k on: the first exception raised.
RECURSIVE cmp_zip(_, _, _, _)
cmp_zip(left, right, truth, k) ==
    IF k > Len(left) \/ k > Len(right) THEN "none"
    ELSE IF cmp(left[k], right[k], truth) # "none" THEN cmp(left[k], right[k], truth)
    ELSE cmp_zip(left, right, truth, k + 1)

\* _compare_return_vals(left, right)
compare_return_vals(left, right, truth) ==
    IF left.kind = "tuple" /\ right.kind = "tuple"
    THEN cmp_zip(left.items, right.items, truth, 1)
    ELSE cmp(left, right, truth)

\* if self.meta: the truth value of the declared meta, or "ValueError".
meta_truth(meta, truth) ==
    IF meta.kind = "none" THEN "False"
    ELSE IF meta.kind = "value" THEN (IF meta.items = <<"0">> THEN "False" ELSE "True")
    ELSE IF meta.kind = "tuple" THEN (IF meta.items = << >> THEN "False" ELSE "True")
    ELSE truth

\* mapfilter.__call__ of a decorator with pre_run and meta=declared, whose
\* pre-run infers the meta inferred, up to _map_partitions_prepare.
\* Result: the exception raised and whether the graph was built.
mapfilter_call(pre_run, declared, inferred, truth_meta, truth_cmp) ==
    LET err == IF ~pre_run THEN "none"
               ELSE IF meta_truth(declared, truth_meta) = "ValueError" THEN "ValueError"
               ELSE IF meta_truth(declared, truth_meta) = "False" THEN "none"
               ELSE compare_return_vals(inferred, declared, truth_cmp)
    IN  [err |-> err, built |-> err = "none"]

(* --------------------- mapfilter on its own: SpecMapfilter -------------- *)

\* A function decorated by mapfilter, with or without pre_run and meta.
InitMapfilter ==
    /\ arrays = << >>
    /\ \E pre_run \in BOOLEAN, declared \in Metas \cup {MetaNone} :
        last = [op |-> "mapfilter", pre_run |-> pre_run, meta |-> declared,
                inferred |-> MetaNone, truth |-> <<"True", "True">>,
                err |-> "none", built |-> FALSE]

\* The decorated function is called; its pre-run infers some meta.
MapfilterCall ==
    /\ last.op = "mapfilter"
    /\ \E inferred \in Metas, truth_meta \in ArrayTruth, truth_cmp \in ArrayTruth :
        LET r == mapfilter_call(last.pre_run, last.meta, inferred, truth_meta, truth_cmp)
        IN  last' = [last EXCEPT !.op = "call", !.inferred = inferred,
                                 !.truth = <<truth_meta, truth_cmp>>,
                                 !.err = r.err, !.built = r.built]
    /\ UNCHANGED arrays

NextMapfilter == MapfilterCall

SpecMapfilter == InitMapfilter /\ [][NextMapfilter]_vars

(* ------------------------------- C25 ----------------------------------- *)

\* The decorated function was called with pre_run and a declared meta.
C25_Called ==
    /\ last.op = "call"
    /\ last.pre_run
    /\ last.meta # MetaNone

\* C25: with pre_run and a declared meta, a declared meta that is not the
\* inferred one (another value, an Array of another form, a tuple against
\* a non-tuple, a tuple of another length) is a ValueError and no graph is
\* built; a declared meta that is the inferred one is no error.
C25_DisagreementIsValueError ==
    C25_Called =>
        /\ last.meta # last.inferred => (last.err = "ValueError" /\ ~last.built)
        /\ last.meta = last.inferred => last.err = "none"

\* What does hold: no graph is built after an error, and when the
\* declared meta is truthy, Arrays of different forms, different values,
\* and a tuple inferred against a value declared are a ValueError, and
\* tuples that differ at a position both have (other than a value inferred
\* where an Array is declared) are an error.
C25_ComparedCases ==
    (C25_Called /\ meta_truth(last.meta, last.truth[1]) = "True") =>
        /\ last.err # "none" => ~last.built
        /\ (last.meta.kind = "array" /\ last.inferred.kind = "array"
              /\ last.meta # last.inferred) => last.err = "ValueError"
        /\ (last.meta.kind = "value" /\ last.inferred.kind \in {"value", "tuple"}
              /\ last.meta # last.inferred) => last.err = "ValueError"
        /\ (last.meta.kind = "tuple" /\ last.inferred.kind = "tuple"
              /\ \E k \in 1..MaxTuple :
                    /\ k <= Len(last.meta.items) /\ k <= Len(last.inferred.items)
                    /\ last.meta.items[k] # last.inferred.items[k]
                    /\ ~(last.meta.items[k].kind = "array"
                          /\ last.inferred.items[k].kind = "value"))
              => last.err # "none"

\* The declared meta is a tuple of one Array, the pre-run inferred a tuple
\* of two, and the graph was built.
C25_Scenario ==
    /\ C25_Called
    /\ last.meta = MetaTuple(<<MetaArray("A")>>)
    /\ last.inferred = MetaTuple(<<MetaArray("A"), MetaArray("B")>>)
    /\ last.err = "none"
    /\ last.built


(* ------------------ from_awkward on its own: SpecFromAwkward ------------ *)

\* How many rows the sources handed to from_awkward have.
MaxSourceRows == 12

\* The arguments of from_awkward: a source of 1..MaxSourceRows rows and
\* npartitions between 1 and the number of rows.
InitFromAwkward ==
    /\ arrays = << >>
    /\ \E nrows \in 1..MaxSourceRows, form \in ArrayForms :
       \E nparts \in 1..nrows :
          last = [op |-> "arguments", nrows |-> nrows, npartitions |-> nparts,
                  form |-> form, new |-> << >>]

\* from_awkward(source, npartitions)
FromAwkwardCall ==
    /\ last.op = "arguments"
    /\ last' = [last EXCEPT
                  !.op = "from_awkward",
                  !.new = Built(from_awkward(last.nrows, last.npartitions, last.form))]
    /\ UNCHANGED arrays

NextFromAwkward == FromAwkwardCall

SpecFromAwkward == InitFromAwkward /\ [][NextFromAwkward]_vars

(* ------------------------------- C26 ----------------------------------- *)

\* C26: from_awkward(source, npartitions=n) with 1 <= n <= len(source)
\* returns an Array of exactly n partitions whose divisions are known,
\* start at 0, increase strictly and end at len(source).
C26_ExactlyNPartitions ==
    last.op = "from_awkward" =>
        /\ Len(last.new) = 1
        /\ LET a == last.new[1]
           IN  /\ npartitions(a) = last.npartitions
               /\ known_divisions(a)
               /\ a.div[1] = 0
               /\ Last(a.div) = last.nrows
               /\ \A k \in 1..(Len(a.div) - 1) : a.div[k] < a.div[k + 1]

\* What does hold: the divisions are known, start at 0, increase strictly
\* and end at len(source), and there are ceil(len / ceil(len / n))
\* partitions, at most n.
C26_DivisionsCoverSource ==
    last.op = "from_awkward" =>
        /\ Len(last.new) = 1
        /\ LET a == last.new[1]
           IN  /\ npartitions(a) = Ceil(last.nrows, Ceil(last.nrows, last.npartitions))
               /\ npartitions(a) <= last.npartitions
               /\ npartitions(a) >= 1
               /\ known_divisions(a)
               /\ a.div[1] = 0
               /\ Last(a.div) = last.nrows
               /\ \A k \in 1..(Len(a.div) - 1) : a.div[k] < a.div[k + 1]

\* from_awkward of 5 rows with npartitions=4 has returned 3 partitions.
C26_Scenario ==
    /\ last.op = "from_awkward"
    /\ last.nrows = 5
    /\ last.npartitions = 4
    /\ Len(last.new) = 1
    /\ last.new[1].div = <<0, 2, 4, 5>>


(* ------------------------ io/json.py: from_json ------------------------- *)

\* The values of blocksize and delimiter: "None" is None, "newline" is b"\n".
Blocksizes == {"None", "128 MiB", "1 MiB"}

Delimiters == {"None", "newline", "comma"}

\* from_map(f, inputs): one partition per input.
from_map(inputs) == inputs

\* The defaults from_json fills in.  Result: <<blocksize, delimiter>>.
from_json_defaults(blocksize, delimiter) ==
    IF blocksize # "None" /\ delimiter = "None" THEN <<blocksize, "newline">>
    ELSE IF blocksize = "None" /\ delimiter = "newline" THEN <<"128 MiB", delimiter>>
    ELSE <<blocksize, delimiter>>

\* from_json(urlpath, blocksize, delimiter) for nfiles files that
\* read_bytes cuts into blocks[i] blocks each.  Result: the exception
\* raised, how the files are read, the blocksize and delimiter in force
\* and the number of partitions.
from_json(nfiles, blocks, blocksize, delimiter) ==
    LET bd == from_json_defaults(blocksize, delimiter)
    IN  IF bd[2] = "None" /\ bd[1] = "None"
        THEN [err |-> "none", read |-> "files", blocksize |-> bd[1],
              delimiter |-> bd[2], npartitions |-> from_map(nfiles)]
        ELSE IF bd[2] # "None" /\ bd[1] # "None"
        THEN [err |-> "none", read |-> "bytes", blocksize |-> bd[1],
              delimiter |-> bd[2], npartitions |-> SumSeq(blocks)]
        ELSE [err |-> "TypeError", read |-> "none", blocksize |-> bd[1],
              delimiter |-> bd[2], npartitions |-> 0]

(* ---------------------- from_json on its own: SpecFromJson -------------- *)

\* How many files urlpath names, and into how many blocks read_bytes cuts
\* a file.
MaxFiles == 3

MaxBlocks == 2

InitFromJson ==
    /\ arrays = << >>
    /\ \E nfiles \in 1..MaxFiles, blocksize \in Blocksizes, delimiter \in Delimiters :
       \E blocks \in [1..nfiles -> 1..MaxBlocks] :
          last = [op |-> "arguments", nfiles |-> nfiles, blocks |-> blocks,
                  blocksize |-> blocksize, delimiter |-> delimiter,
                  res |-> from_json(1, <<1>>, "None", "None")]

FromJsonCall ==
    /\ last.op = "arguments"
    /\ last' = [last EXCEPT
                  !.op = "from_json",
                  !.res = from_json(last.nfiles, last.blocks,
                                    last.blocksize, last.delimiter)]
    /\ UNCHANGED arrays

NextFromJson == FromJsonCall

SpecFromJson == InitFromJson /\ [][NextFromJson]_vars

(* ------------------------------- C27 ----------------------------------- *)

\* C27: a blocksize without delimiter is read in byte blocks split at the
\* newline; a delimiter, whatever it is, without blocksize is read in
\* byte blocks of 128 MiB; without either there is one partition per
\* file; and no blocksize and delimiter end in TypeError.
C27_ArgumentsResolved ==
    last.op = "from_json" =>
        /\ last.res.err = "none"
        /\ (last.blocksize # "None" /\ last.delimiter = "None") =>
               (/\ last.res.read = "bytes"
                /\ last.res.delimiter = "newline"
                /\ last.res.blocksize = last.blocksize)
        /\ (last.blocksize = "None" /\ last.delimiter # "None") =>
               (/\ last.res.read = "bytes"
                /\ last.res.blocksize = "128 MiB"
                /\ last.res.delimiter = last.delimiter)
        /\ (last.blocksize = "None" /\ last.delimiter = "None") =>
               (/\ last.res.read = "files"
                /\ last.res.npartitions = last.nfiles)

\* What does hold: the same with the newline as the only delimiter that
\* may come without a blocksize; any other one without a blocksize is
\* the TypeError, and nothing else is.
C27_ResolvedForNewline ==
    last.op = "from_json" =>
        /\ last.res.err = "TypeError" <=>
               (last.blocksize = "None" /\ last.delimiter \notin {"None", "newline"})
        /\ (last.blocksize # "None" /\ last.delimiter = "None") =>
               (/\ last.res.read = "bytes"
                /\ last.res.delimiter = "newline"
                /\ last.res.blocksize = last.blocksize)
        /\ (last.blocksize = "None" /\ last.delimiter = "newline") =>
               (/\ last.res.read = "bytes"
                /\ last.res.blocksize = "128 MiB"
                /\ last.res.delimiter = "newline")
        /\ (last.blocksize = "None" /\ last.delimiter = "None") =>
               (/\ last.res.read = "files"
                /\ last.res.npartitions = last.nfiles)

\* from_json(urlpath, delimiter=b",") has raised TypeError.
C27_Scenario ==
    /\ last.op = "from_json"
    /\ last.blocksize = "None"
    /\ last.delimiter = "comma"
    /\ last.res.err = "TypeError"


(* ------------------------------- C28 ----------------------------------- *)

\* The fields of the source i that its direct dependent d reads: those a
\* field selection names; every field the source produces for any other
\* layer, which is handed the records whole.
C28_Reads(dsk, i, d) ==
    IF FieldSelection(dsk.layers[d])
    THEN (IF dsk.layers[d].arg.list THEN dsk.layers[d].arg.arg
          ELSE {dsk.layers[d].arg.arg}) \cap dsk.layers[i].columns
    ELSE dsk.layers[i].columns

\* C28: the optimizer never takes from a source a field that a layer
\* depending on it reads, whether that layer selects fields or is handed
\* whole records.
C28_ProjectionSound ==
    last.op = "optimize" =>
        \A i \in 1..Len(last.pre.layers) :
            Projectable(last.pre, i) =>
                \A d \in dependents(last.pre, i) :
                    C28_Reads(last.pre, i, d) \subseteq last.dsk.layers[i].columns

\* What does hold: a source all of whose direct dependents select fields
\* keeps every field they select.
C28_SoundForFieldSelections ==
    last.op = "optimize" =>
        \A i \in 1..Len(last.pre.layers) :
            (/\ Projectable(last.pre, i)
             /\ \A d \in dependents(last.pre, i) : FieldSelection(last.pre.layers[d])) =>
                \A d \in dependents(last.pre, i) :
                    C28_Reads(last.pre, i, d) \subseteq last.dsk.layers[i].columns

\* A source of fields a, b, c with the dependents a["a"] and a function
\* applied to the whole records has been narrowed to the field a.
C28_Scenario ==
    /\ last.op = "optimize"
    /\ Len(last.pre.layers) = 3
    /\ last.pre.layers[1] = AwkwardIOLayer(Fields, TRUE)
    /\ last.pre.layers[2] = Blockwise("getitem", FnArg(FALSE, "a"))
    /\ last.pre.layers[3] = Blockwise("other", NoArg)
    /\ last.pre.deps[2] = {1}
    /\ last.pre.deps[3] = {1}
    /\ last.dsk.layers[1].columns = {"a"}


====
